---- MODULE Spec2Model ----
(***************************************************************************)
(* Disposition Engine of LTC_AI_Gateway: scenario selection, partner       *)
(* discovery with retry, response cache, trust gates, ranking and          *)
(* aggregation.                                                            *)
(*                                                                         *)
(* Conventions of the model                                                *)
(*   - a Python str is a sequence of one-character strings;                *)
(*   - Python None is the value None;                                      *)
(*   - a score in [0,1] rounded to 3 decimals is an integer number of      *)
(*     thousandths (0..1000); intermediate sums are kept in millionths;    *)
(*   - weights and strengths are thousandths too (0.45 is 450);            *)
(*   - a rating is an integer number of tenths (4.5 is 45);                *)
(*   - time is counted in seconds.                                         *)
(***************************************************************************)
EXTENDS Integers, Sequences, FiniteSets, TLC

(* None where a str is expected: a one-element sequence that is no string   *)
(* of characters; None where a number or a flag is expected: the empty     *)
(* tuple, a present value v being <<v>>.                                    *)
None == <<"None">>
Nothing == <<>>
Some(v) == <<v>>

Min2(a, b) == IF a <= b THEN a ELSE b
Max2(a, b) == IF a >= b THEN a ELSE b

(* round(x, 3) of a value held in millionths, as thousandths *)
Round3(micro) == (micro + 500) \div 1000

(***************************************************************************)
(* Strings                                                                 *)
(***************************************************************************)

(* str.lower *)
Lower(ch) ==
  CASE ch = "A" -> "a"
    [] ch = "B" -> "b"
    [] ch = "C" -> "c"
    [] ch = "D" -> "d"
    [] ch = "E" -> "e"
    [] ch = "F" -> "f"
    [] ch = "G" -> "g"
    [] ch = "H" -> "h"
    [] ch = "I" -> "i"
    [] ch = "J" -> "j"
    [] ch = "K" -> "k"
    [] ch = "L" -> "l"
    [] ch = "M" -> "m"
    [] ch = "N" -> "n"
    [] ch = "O" -> "o"
    [] ch = "P" -> "p"
    [] ch = "Q" -> "q"
    [] ch = "R" -> "r"
    [] ch = "S" -> "s"
    [] ch = "T" -> "t"
    [] ch = "U" -> "u"
    [] ch = "V" -> "v"
    [] ch = "W" -> "w"
    [] ch = "X" -> "x"
    [] ch = "Y" -> "y"
    [] ch = "Z" -> "z"
    [] OTHER -> ch

RECURSIVE LStrip(_)
LStrip(s) == IF s # <<>> /\ Head(s) = " " THEN LStrip(Tail(s)) ELSE s

RECURSIVE RStrip(_)
RStrip(s) ==
  IF s # <<>> /\ s[Len(s)] = " " THEN RStrip(SubSeq(s, 1, Len(s) - 1)) ELSE s

LowerAll(t) == [i \in 1..Len(t) |-> Lower(t[i])]

(* (s or "").strip().lower() *)
_norm(s) == LowerAll(IF s = None THEN <<>> ELSE RStrip(LStrip(s)))

(* Python's  sub in text *)
Contains(text, sub) ==
  \E i \in 0..(Len(text) - Len(sub)) : \A j \in 1..Len(sub) : text[i + j] = sub[j]

(* " ".join(parts) *)
RECURSIVE JoinSp(_)
JoinSp(parts) ==
  IF parts = <<>> THEN <<>>
  ELSE IF Len(parts) = 1 THEN parts[1]
  ELSE parts[1] \o <<" ">> \o JoinSp(Tail(parts))

(* str.split(): the maximal runs of non-blank characters *)
RECURSIVE SplitWs(_, _)
SplitWs(s, cur) ==
  IF s = <<>> THEN (IF cur = <<>> THEN <<>> ELSE <<cur>>)
  ELSE IF Head(s) = " "
       THEN (IF cur = <<>> THEN <<>> ELSE <<cur>>) \o SplitWs(Tail(s), <<>>)
       ELSE SplitWs(Tail(s), Append(cur, Head(s)))

Split(s) == SplitWs(s, <<>>)

(* seq[:n]; a negative n counts from the end *)
(* [x for x, keep in zip(seq, flags) if keep] *)
RECURSIVE Keep(_, _)
Keep(seq, flags) ==
  IF seq = <<>> THEN <<>>
  ELSE (IF Head(flags) THEN <<Head(seq)>> ELSE <<>>) \o Keep(Tail(seq), Tail(flags))

(* a slice that keeps one element too many *)
SliceInclusive(seq, n) == SubSeq(seq, 1, Min2(Len(seq), n + 1))

Take(seq, n) ==
  IF n >= 0 THEN SubSeq(seq, 1, Min2(Len(seq), n))
  ELSE SubSeq(seq, 1, Max2(0, Len(seq) + n))

(***************************************************************************)
(* Trust gates                                                             *)
(***************************************************************************)

(* dict.get(key, default) on a function used as a dict *)
Get(d, k, default) == IF k \in DOMAIN d THEN d[k] ELSE default

(* "not <keyword>" or "no <keyword>" occurs anywhere in the text *)
NegatedIn(t, k) ==
  \/ Contains(t, <<"n", "o", "t", " ">> \o k)
  \/ Contains(t, <<"n", "o", " ">> \o k)

_negated(text, keyword) == NegatedIn(_norm(text), _norm(keyword))

(* The (source, keyword) pairs in the order the two nested loops visit them *)
RECURSIVE GatePairs(_, _)
GatePairs(srcs, keywords) ==
  IF srcs = <<>> THEN <<>>
  ELSE [i \in 1..Len(keywords) |-> <<Head(srcs), keywords[i]>>]
       \o GatePairs(Tail(srcs), keywords)

(* One iteration of the inner loop: acc = [strength, source, signals] *)
GateMatch(acc, src, kw, txt_l, kw_l, w) ==
  IF txt_l = <<>> \/ kw_l = <<>> THEN acc
  ELSE IF Contains(txt_l, kw_l) /\ ~_negated(txt_l, kw_l)
  THEN [strength |-> IF w > acc.strength THEN w ELSE acc.strength,
        source   |-> IF w > acc.strength THEN src ELSE acc.source,
        signals  |-> Append(acc.signals, [label |-> kw, source |-> src])]
  ELSE acc

GateStep(gate_def, sources, acc, pair) ==
  GateMatch(acc, pair[1], pair[2], _norm(Get(sources, pair[1], None)), _norm(pair[2]),
            Get(gate_def.sourceWeights, pair[1], 500))

RECURSIVE GateFold(_, _, _, _)
GateFold(gate_def, sources, acc, pairs) ==
  IF pairs = <<>> THEN acc
  ELSE GateFold(gate_def, sources, GateStep(gate_def, sources, acc, Head(pairs)),
                Tail(pairs))

GateResult(r) ==
  [passed |-> r.strength > 0, source |-> r.source,
   strength |-> r.strength, signals |-> r.signals]

(* Returns [passed, source, strength, signals] *)
_eval_gate_keyword_any(gate_def, sources) ==
  GateResult(GateFold(gate_def, sources,
                      [strength |-> 0, source |-> None, signals |-> <<>>],
                      GatePairs(gate_def.sources, gate_def.keywords)))

(* A gate reference is a string cut into tokens: the prefix "required:" is  *)
(* one token, and so is a blank and the gate's name.                        *)
GateMode(gate_id) ==
  IF gate_id # <<>> /\ Head(gate_id) = "required:" THEN "required" ELSE "boost"

(* gate_id.split("required:", 1)[1].strip() for a required gate *)
GateGid(gate_id) ==
  IF GateMode(gate_id) = "required" THEN RStrip(LStrip(Tail(gate_id))) ELSE gate_id

(* the entry of gates_out of a gate whose evaluation gave r, with whether   *)
(* it passed                                                               *)
GateEntry(gid, mode, r) ==
  [id |-> gid, mode |-> mode, status |-> IF r.passed THEN "pass" ELSE "fail",
   source |-> r.source, strength |-> r.strength, passed |-> r.passed]

EvalGateOf(defs, sources, gid, mode) ==
  IF gid \notin DOMAIN defs
  THEN [id |-> gid, mode |-> mode, status |-> "unknown", source |-> None,
        strength |-> 0, passed |-> FALSE]
  ELSE GateEntry(gid, mode,
                 IF defs[gid].type = "keyword_any"
                 THEN _eval_gate_keyword_any(defs[gid], sources)
                 ELSE [passed |-> FALSE, source |-> None, strength |-> 0,
                       signals |-> <<>>])

(* One gate of the loop of _evaluate_trust *)
EvalGate(matrix, sources, gate_id) ==
  EvalGateOf(matrix.trustGateDefinitions, sources, GateGid(gate_id), GateMode(gate_id))

RECURSIVE SumStrength(_)
SumStrength(gs) == IF gs = <<>> THEN 0 ELSE Head(gs).strength + SumStrength(Tail(gs))

(* [g for g in gs if g["mode"] == mode] *)
OfMode(gs, mode) == Keep(gs, [i \in 1..Len(gs) |-> gs[i].mode = mode])

(* [g for g in gs if g["passed"]] *)
Passed(gs) == Keep(gs, [i \in 1..Len(gs) |-> gs[i].passed])

(* n / d rounded to the nearest integer *)
RoundDiv(n, d) == (2 * n + d) \div (2 * d)

(* a base that is 0.72 as soon as one required gate passes *)
TrustBaseAnyPass(required_total, required_pass) ==
  IF required_total > 0
  THEN IF required_pass > 0 THEN 720000 ELSE 0
  ELSE 600000

(* base of the trust score, in millionths *)
TrustBase(required_total, required_pass) ==
  IF required_total > 0
  THEN IF required_pass = required_total THEN 720000
       ELSE RoundDiv(100000 * required_pass, required_total)
  ELSE 600000

(* 0.18 * average strength of the passed gates gs, in millionths *)
TrustLiftTerm(gs) ==
  IF Len(gs) > 0 THEN RoundDiv(180 * SumStrength(gs), Len(gs)) ELSE 0

(* gates_out with the required and the boost gates that passed *)
TrustOfPassed(gates_out, required_total, required_passed, boost_passed) ==
  [gates |-> [i \in 1..Len(gates_out) |->
                [id |-> gates_out[i].id, mode |-> gates_out[i].mode,
                 status |-> gates_out[i].status, source |-> gates_out[i].source,
                 strength |-> gates_out[i].strength]],
   trustScore |->
     Round3(Max2(0, Min2(1000000, TrustBase(required_total, Len(required_passed))
                                  + TrustLiftTerm(required_passed)
                                  + TrustLiftTerm(boost_passed))))]

TrustOf(gates_out) ==
  TrustOfPassed(gates_out, Len(OfMode(gates_out, "required")),
                Passed(OfMode(gates_out, "required")),
                Passed(OfMode(gates_out, "boost")))

_evaluate_trust(matrix, partner_payload_sources, trust_gate_ids) ==
  TrustOf([i \in 1..Len(trust_gate_ids) |->
             EvalGate(matrix, partner_payload_sources, trust_gate_ids[i])])

(* a filter that keeps a candidate only when every required gate passes *)
AllRequiredPass(gates) ==
  \A i \in 1..Len(gates) : gates[i].mode = "required" => gates[i].status = "pass"

(* If any required gate fails, exclude the partner *)
_apply_required_gates(gates) ==
  ~\E i \in 1..Len(gates) : gates[i].mode = "required" /\ gates[i].status = "fail"

(***************************************************************************)
(* Ranking                                                                 *)
(***************************************************************************)

(* number of the first 12 query tokens of length >= 4 found in the snippet *)
RelevanceHits(txt, tokens) ==
  Cardinality({i \in 1..Len(tokens) : Contains(txt, tokens[i])})

(* [t for t in q.split() if len(t) >= 4] *)
LongTokens(words) == Keep(words, [i \in 1..Len(words) |-> Len(words[i]) >= 4])

_relevance_score(partner, query) ==
  Round3(550000
         + (450 * Min2(1000000,
                       RoundDiv(RelevanceHits(_norm(partner.sources.website_snippet),
                                              Take(LongTokens(Split(_norm(query))), 12))
                                * 1000000, 6))) \div 1000)

(* distance_miles and radius_miles are whole miles *)
_distance_score(distance_miles, radius_miles) ==
  IF radius_miles <= 0 THEN 500
  ELSE LET ratio == RoundDiv(distance_miles * 1000000, radius_miles)
       IN  Round3(Max2(0, 1000000 - Min2(ratio, 1000000)))

(* rating is Nothing or Some(tenths): rating / 5.0 is tenths * 20 thousandths *)
_review_score(rating) ==
  IF rating = Nothing THEN 500
  ELSE Round3(Max2(0, Min2(1000000, rating[1] * 20000)))

(* A distanceMiles value is Nothing (absent), Some(whole miles), or a text  *)
(* that float() rejects; float(v) succeeds on Some(miles) only.            *)
Unparseable == <<"n", "a">>
IsFloat(v) == Len(v) = 1

(* float(dist_miles_raw) if dist_miles_raw is not None else float(radius), *)
(* and float(radius) when float() raises                                   *)
DistMiles(dist_miles_raw, radius) ==
  IF dist_miles_raw # Nothing /\ IsFloat(dist_miles_raw) THEN dist_miles_raw[1] ELSE radius

(* the weighted sum as it is, without max / min *)
RankUnclamped(rank_weights, trust_score, relevance, distance_score, review_score) ==
  Round3(
      (Get(rank_weights, "trustScore", 450) * trust_score)
    + (Get(rank_weights, "relevanceScore", 350) * relevance)
    + (Get(rank_weights, "distanceScore", 150) * distance_score)
    + (Get(rank_weights, "reviewScore", 50) * review_score))

_rank_candidates(rank_weights, trust_score, relevance, distance_score, review_score) ==
  Round3(Max2(0, Min2(1000000,
      (Get(rank_weights, "trustScore", 450) * trust_score)
    + (Get(rank_weights, "relevanceScore", 350) * relevance)
    + (Get(rank_weights, "distanceScore", 150) * distance_score)
    + (Get(rank_weights, "reviewScore", 50) * review_score))))

(***************************************************************************)
(* Scenario selection                                                      *)
(***************************************************************************)

(* A value of a when-predicate says what JSON value it is:                 *)
(*   [kind |-> "star"]  the wildcard "*"      [kind |-> "null"]  null      *)
(*   [kind |-> "list", items |-> <<..>>]      [kind |-> "scalar", v |-> x] *)
(* A request attribute is Nothing (None) or Some(value).                   *)
(* a match_value that looks at the request value first *)
MatchValueNullFirst(when_val, req_val, normalize_text) ==
  IF req_val = Nothing THEN FALSE
  ELSE IF when_val.kind \in {"star", "null"} THEN TRUE
  ELSE IF when_val.kind = "list"
       THEN \E i \in 1..Len(when_val.items) : when_val.items[i] = req_val[1]
  ELSE when_val.v = req_val[1]

match_value(when_val, req_val, normalize_text) ==
  IF when_val.kind \in {"star", "null"} THEN TRUE
  ELSE IF req_val = Nothing THEN FALSE
  ELSE IF when_val.kind = "list"
       THEN IF normalize_text
            THEN \E i \in 1..Len(when_val.items) :
                    _norm(when_val.items[i]) = _norm(req_val[1])
            ELSE \E i \in 1..Len(when_val.items) : when_val.items[i] = req_val[1]
  ELSE IF normalize_text THEN _norm(when_val.v) = _norm(req_val[1])
  ELSE when_val.v = req_val[1]

_scenario_matches(when, req) ==
  LET sc == req.scenario
  IN  /\ ("categories" \in DOMAIN when => match_value(when.categories, sc.category, TRUE))
      /\ ("valueBand" \in DOMAIN when => match_value(when.valueBand, sc.valueBand, FALSE))
      /\ ("bulky" \in DOMAIN when => match_value(when.bulky, sc.bulky, FALSE))
      /\ ("fragile" \in DOMAIN when => match_value(when.fragile, sc.fragile, FALSE))
      /\ ("goals" \in DOMAIN when => match_value(when.goals, sc.goal, FALSE))
      /\ ("chosenPaths" \in DOMAIN when
            => match_value(when.chosenPaths, Some(req.chosenPath), FALSE))

(* sorted(seq, key, reverse=True) is stable: the indices of keys, larger   *)
(* key first, equal keys in their original order.                          *)
RECURSIVE InsertDesc(_, _, _)
InsertDesc(out, i, keys) ==
  IF out = <<>> THEN <<i>>
  ELSE IF keys[Head(out)] >= keys[i]
       THEN <<Head(out)>> \o InsertDesc(Tail(out), i, keys)
       ELSE <<i>> \o out

RECURSIVE SortedDescIdx(_, _)
SortedDescIdx(n, keys) ==
  IF n = 0 THEN <<>> ELSE InsertDesc(SortedDescIdx(n - 1, keys), n, keys)

Permuted(seq, perm) == [j \in 1..Len(seq) |-> seq[perm[j]]]

SortedDesc(seq, keys) == Permuted(seq, SortedDescIdx(Len(seq), keys))

(* A scenario id is a string; a missing id or defaultScenarioId is "",     *)
(* which the code's truth test treats as None.                             *)
DegenerateScenario == [id |-> "default_any", partnerTypes |-> <<>>]

First(S) == CHOOSE i \in S : \A j \in S : i <= j

(* a selection that skips the defaultScenarioId fallback *)
PickFromNoDefault(scenarios_sorted, matching, named, default_id) ==
  IF matching # {} THEN scenarios_sorted[First(matching)]
  ELSE IF Len(scenarios_sorted) > 0 THEN scenarios_sorted[1]
  ELSE DegenerateScenario

(* the two loops of _pick_scenario and its fallbacks *)
PickFrom(scenarios_sorted, matching, named, default_id) ==
  IF matching # {} THEN scenarios_sorted[First(matching)]
  ELSE IF default_id # "" /\ named # {} THEN scenarios_sorted[First(named)]
  ELSE IF Len(scenarios_sorted) > 0 THEN scenarios_sorted[1]
  ELSE DegenerateScenario

PickSorted(scenarios_sorted, default_id, req) ==
  PickFrom(scenarios_sorted,
           {i \in 1..Len(scenarios_sorted) :
              _scenario_matches(Get(scenarios_sorted[i], "when", <<>>), req)},
           {i \in 1..Len(scenarios_sorted) :
              Get(scenarios_sorted[i], "id", "") = default_id},
           default_id)

(* the scenarios taken in declared order, unsorted *)
PickFirstDeclared(matrix, req) ==
  PickSorted(Get(matrix, "scenarios", <<>>), Get(matrix, "defaultScenarioId", ""), req)

_pick_scenario(matrix, req) ==
  PickSorted(SortedDesc(Get(matrix, "scenarios", <<>>),
                        [i \in 1..Len(Get(matrix, "scenarios", <<>>)) |->
                           Get(Get(matrix, "scenarios", <<>>)[i], "priority", 0)]),
             Get(matrix, "defaultScenarioId", ""), req)

(***************************************************************************)
(* Response cache: key -> [created, payload]                               *)
(***************************************************************************)

_DISPOSITION_CACHE_TTL_SECONDS == 86400

(* Returns [cache, hit, payload]: an expired entry is popped *)
(* a lookup that expires an entry already at the age of the TTL *)
CacheGetExclusive(cache, key, now) ==
  IF key \notin DOMAIN cache
  THEN [cache |-> cache, hit |-> FALSE, payload |-> <<>>]
  ELSE IF now - cache[key].created >= _DISPOSITION_CACHE_TTL_SECONDS
       THEN [cache |-> [k \in DOMAIN cache \ {key} |-> cache[k]],
             hit |-> FALSE, payload |-> <<>>]
       ELSE [cache |-> cache, hit |-> TRUE, payload |-> cache[key].payload]

_cache_get(cache, key, now) ==
  IF key \notin DOMAIN cache
  THEN [cache |-> cache, hit |-> FALSE, payload |-> <<>>]
  ELSE IF now - cache[key].created > _DISPOSITION_CACHE_TTL_SECONDS
       THEN [cache |-> [k \in DOMAIN cache \ {key} |-> cache[k]],
             hit |-> FALSE, payload |-> <<>>]
       ELSE [cache |-> cache, hit |-> TRUE, payload |-> cache[key].payload]

(* an entry stored without the time of the write *)
CacheSetUnstamped(cache, key, payload, now) ==
  [k \in DOMAIN cache \cup {key} |->
     IF k = key THEN [created |-> 0, payload |-> payload] ELSE cache[k]]

_cache_set(cache, key, payload, now) ==
  [k \in DOMAIN cache \cup {key} |->
     IF k = key THEN [created |-> now, payload |-> payload] ELSE cache[k]]

(* "||".join(parts): the parts as a tuple; the location part is joined by "|" *)
_mk_cache_key(req, partner_type, radius, query) ==
  LET loc == req.location
  IN  << "v1",
         partner_type,
         _norm(query),
         _norm(loc.city) \o <<"|">> \o _norm(loc.region) \o <<"|">>
           \o _norm(loc.countryCode),
         radius,
         _norm(IF req.scenario.category = Nothing THEN <<>> ELSE req.scenario.category[1]),
         _norm(IF req.scenario.goal = Nothing THEN <<>> ELSE req.scenario.goal[1]),
         _norm(req.chosenPath) >>

(***************************************************************************)
(* Curated hub channels                                                    *)
(***************************************************************************)

Curated_therealreal ==
  [name |->
    <<"T", "h", "e", " ", "R", "e", "a", "l", "R", "e", "a", "l">>,
   website |->
    <<"h", "t", "t", "p", "s", ":", "/", "/", "w", "w", "w", ".", "t", "h",
      "e", "r", "e", "a", "l", "r", "e", "a", "l", ".", "c", "o", "m", "/">>,
   snippet |->
    <<"L", "u", "x", "u", "r", "y", " ", "c", "o", "n", "s", "i", "g", "n",
      "m", "e", "n", "t", " ", "c", "h", "a", "n", "n", "e", "l", " ", "w",
      "i", "t", "h", " ", "m", "a", "i", "l", "-", "i", "n", " ", "/", " ",
      "c", "o", "n", "c", "i", "e", "r", "g", "e", "-", "s", "t", "y", "l",
      "e", " ", "i", "n", "t", "a", "k", "e", " ", "o", "p", "t", "i", "o",
      "n", "s", ";", " ", "a", "u", "t", "h", "e", "n", "t", "i", "c", "a",
      "t", "i", "o", "n", "-", "o", "r", "i", "e", "n", "t", "e", "d", " ",
      "w", "o", "r", "k", "f", "l", "o", "w", " ", "(", "v", "e", "r", "i",
      "f", "y", " ", "c", "u", "r", "r", "e", "n", "t", " ", "p", "r", "o",
      "g", "r", "a", "m", "s", ")", ".">>,
   details |->
    <<"H", "u", "b", "/", "n", "a", "t", "i", "o", "n", "a", "l", " ", "c",
      "h", "a", "n", "n", "e", "l", ".", " ", "O", "f", "t", "e", "n", " ",
      "a", " ", "b", "e", "t", "t", "e", "r", " ", "f", "i", "t", " ", "t",
      "h", "a", "n", " ", "l", "o", "c", "a", "l", " ", "c", "o", "n", "s",
      "i", "g", "n", "m", "e", "n", "t", " ", "f", "o", "r", " ", "R", "e",
      "m", "e", "m", "b", "e", "r", "e", "d", "/", "L", "u", "x", "u", "r",
      "y", " ", "b", "r", "a", "n", "d", "s", " ", "i", "n", " ", "s", "e",
      "c", "o", "n", "d", "a", "r", "y", " ", "m", "a", "r", "k", "e", "t",
      "s", ".">>]

Curated_vestiaire ==
  [name |->
    <<"V", "e", "s", "t", "i", "a", "i", "r", "e", " ", "C", "o", "l", "l",
      "e", "c", "t", "i", "v", "e">>,
   website |->
    <<"h", "t", "t", "p", "s", ":", "/", "/", "w", "w", "w", ".", "v", "e",
      "s", "t", "i", "a", "i", "r", "e", "c", "o", "l", "l", "e", "c", "t",
      "i", "v", "e", ".", "c", "o", "m", "/">>,
   snippet |->
    <<"D", "e", "s", "i", "g", "n", "e", "r", " ", "f", "a", "s", "h", "i",
      "o", "n", " ", "r", "e", "s", "a", "l", "e", " ", "m", "a", "r", "k",
      "e", "t", "p", "l", "a", "c", "e", ";", " ", "a", "u", "t", "h", "e",
      "n", "t", "i", "c", "a", "t", "i", "o", "n", " ", "p", "a", "t", "h",
      "w", "a", "y", "s", " ", "a", "r", "e", " ", "p", "a", "r", "t", " ",
      "o", "f", " ", "t", "h", "e", " ", "m", "o", "d", "e", "l", " ", "(",
      "v", "e", "r", "i", "f", "y", " ", "p", "r", "o", "c", "e", "s", "s",
      " ", "f", "o", "r", " ", "y", "o", "u", "r", " ", "i", "t", "e", "m",
      " ", "t", "y", "p", "e", " ", "a", "n", "d", " ", "r", "e", "g", "i",
      "o", "n", ")", ".">>,
   details |->
    <<"H", "u", "b", "/", "o", "n", "l", "i", "n", "e", " ", "c", "h", "a",
      "n", "n", "e", "l", ".", " ", "S", "h", "i", "p", "p", "i", "n", "g",
      " ", "i", "s", " ", "o", "f", "t", "e", "n", " ", "e", "a", "s", "i",
      "e", "r", " ", "t", "h", "a", "n", " ", "d", "r", "i", "v", "i", "n",
      "g", ",", " ", "e", "v", "e", "n", " ", "i", "n", " ", "m", "a", "j",
      "o", "r", " ", "c", "i", "t", "i", "e", "s", ".">>]

Curated_grailed ==
  [name |->
    <<"G", "r", "a", "i", "l", "e", "d", " ", "(", "M", "e", "n", "s", "w",
      "e", "a", "r", ")">>,
   website |->
    <<"h", "t", "t", "p", "s", ":", "/", "/", "w", "w", "w", ".", "g", "r",
      "a", "i", "l", "e", "d", ".", "c", "o", "m", "/">>,
   snippet |->
    <<"M", "e", "n", "s", "w", "e", "a", "r", "-", "f", "o", "c", "u", "s",
      "e", "d", " ", "r", "e", "s", "a", "l", "e", " ", "m", "a", "r", "k",
      "e", "t", "p", "l", "a", "c", "e", ";", " ", "b", "e", "s", "t", " ",
      "f", "o", "r", " ", "s", "p", "e", "c", "i", "f", "i", "c", " ", "m",
      "e", "n", "s", "w", "e", "a", "r", " ", "b", "r", "a", "n", "d", "s",
      "/", "s", "t", "y", "l", "e", "s", " ", "(", "v", "e", "r", "i", "f",
      "y", " ", "s", "e", "l", "l", "i", "n", "g", " ", "w", "o", "r", "k",
      "f", "l", "o", "w", " ", "a", "n", "d", " ", "f", "e", "e", "s", ")",
      ".">>,
   details |->
    <<"O", "n", "l", "i", "n", "e", " ", "c", "h", "a", "n", "n", "e", "l",
      ";", " ", "u", "s", "e", "f", "u", "l", " ", "w", "h", "e", "n", " ",
      "l", "o", "c", "a", "l", " ", "l", "u", "x", "u", "r", "y", " ", "d",
      "e", "m", "a", "n", "d", " ", "i", "s", " ", "w", "e", "a", "k", " ",
      "o", "r", " ", "i", "n", "c", "o", "n", "s", "i", "s", "t", "e", "n",
      "t", ".">>]

(* ", ".join(parts) *)
RECURSIVE JoinComma(_)
JoinComma(parts) ==
  IF parts = <<>> THEN <<>>
  ELSE IF Len(parts) = 1 THEN parts[1]
  ELSE parts[1] \o <<",", " ">> \o JoinComma(Tail(parts))

IsNonBlank(x) == RStrip(LStrip(x)) # <<>>

(* " (brand hints: a, b, c)" from the first 3 of the non-blank hints, stripped *)
NonBlank(xs) == Keep(xs, [i \in 1..Len(xs) |-> IsNonBlank(xs[i])])

StripAll(xs) == [i \in 1..Len(xs) |-> RStrip(LStrip(xs[i]))]

HintsTxtOf(brand_hints) ==
  IF brand_hints = <<>> THEN <<>>
  ELSE <<" ", "(", "b", "r", "a", "n", "d", " ", "h", "i", "n", "t", "s", ":", " ">>
       \o JoinComma(Take(brand_hints, 3)) \o <<")">>

HintsTxt(req) == HintsTxtOf(Take(StripAll(NonBlank(req.scenario.brandHints)), 6))

CuratedEntry(id, e, hints_txt) ==
  [partnerId |-> id, name |-> e.name, partnerType |-> "luxury_hub_mailin",
   contact |-> [phone |-> None, website |-> e.website, address |-> None,
                city |-> None, region |-> None],
   distanceMiles |-> Nothing, rating |-> Nothing,
   sources |-> [website_snippet |-> e.snippet, place_details |-> e.details \o hints_txt,
                reviews_snippet |-> <<>>]]

CuratedWith(hints_txt) ==
  << CuratedEntry("curated:luxury:therealreal", Curated_therealreal, hints_txt),
     CuratedEntry("curated:luxury:vestiaire", Curated_vestiaire, hints_txt),
     CuratedEntry("curated:luxury:grailed", Curated_grailed, hints_txt) >>

_curated_luxury_hub_mailin_candidates(req) == CuratedWith(HintsTxt(req))

(***************************************************************************)
(* disposition_partners_search                                             *)
(***************************************************************************)

(* payload.hints.keywords merged into payload.scenario.brandHints:         *)
(* stripped, without blanks and case-insensitive repeats, capped at 6      *)
RECURSIVE MergeHints(_, _, _)
RECURSIVE MergeOne(_, _, _, _)
MergeOne(current, seen, keywords, kw_s) ==
  IF kw_s = <<>> \/ _norm(kw_s) \in seen
  THEN MergeHints(current, seen, Tail(keywords))
  ELSE MergeHints(Append(current, kw_s), seen \cup {_norm(kw_s)}, Tail(keywords))

MergeHints(current, seen, keywords) ==
  IF keywords = <<>> THEN current
  ELSE MergeOne(current, seen, keywords, RStrip(LStrip(Head(keywords))))

SeenHints(current) ==
  {_norm(current[i]) : i \in {j \in 1..Len(current) : IsNonBlank(current[j])}}

_normalize_brand_hints(payload) ==
  [payload EXCEPT !.scenario.brandHints =
     Take(IF payload.hints = Nothing THEN payload.scenario.brandHints
          ELSE MergeHints(payload.scenario.brandHints,
                          SeenHints(payload.scenario.brandHints),
                          payload.hints[1].keywords), 6)]

(* template.replace("{city}", ..).replace("{region}", ..).replace("{category}", ..)  *)
(* a template is a sequence of characters and of the three placeholders    *)
RECURSIVE Substitute(_, _)
Substitute(template, payload) ==
  IF template = <<>> THEN <<>>
  ELSE LET h == Head(template)
           v == CASE h = "{city}" -> payload.location.city
                  [] h = "{region}" -> payload.location.region
                  [] h = "{category}" ->
                       (IF payload.scenario.category = Nothing THEN <<>>
                        ELSE payload.scenario.category[1])
                  [] OTHER -> <<h>>
       IN  v \o Substitute(Tail(template), payload)

(* query_str with up to 2 brand hints appended *)
WithHints(query_str, payload) ==
  IF payload.scenario.brandHints # <<>>
  THEN query_str \o <<" ">> \o JoinSp(Take(payload.scenario.brandHints, 2))
  ELSE query_str

HubQuery ==
  <<"l", "u", "x", "u", "r", "y", " ", "m", "a", "i", "l", "-", "i", "n", " ",
    "r", "e", "s", "a", "l", "e">>

(* The record appended to found_for_type; the reasons, the summary, the    *)
(* questions and the signals are texts no later step reads, left out.      *)
ResultRecord(c, partner_type, claim_level, t, score) ==
  [partnerId |-> c.partnerId, name |-> c.name, partnerType |-> partner_type,
   contact |-> c.contact, distanceMiles |-> c.distanceMiles, rating |-> c.rating,
   trust |-> [trustScore |-> t.trustScore, claimLevel |-> claim_level,
              gates |-> t.gates],
   ranking |-> [score |-> score]]

(* a hub entry ranked with the distance score of a candidate at the radius *)
EvalTrustedHubAtRadius(pt, c, query_str, radius, hub, t) ==
  [kept |-> _apply_required_gates(t.gates), gates |-> t.gates,
   partnerId |-> c.partnerId, partnerType |-> pt.type,
   result |->
     ResultRecord(c, pt.type, IF hub THEN "curated" ELSE "claimed", t,
       _rank_candidates(Get(pt, "rankWeights", <<>>), t.trustScore,
                        _relevance_score(c, query_str),
                        IF hub THEN 0
                        ELSE _distance_score(DistMiles(c.distanceMiles, radius), radius),
                        _review_score(c.rating)))]

EvalTrusted(pt, c, query_str, radius, hub, t) ==
  [kept |-> _apply_required_gates(t.gates), gates |-> t.gates,
   partnerId |-> c.partnerId, partnerType |-> pt.type,
   result |->
     ResultRecord(c, pt.type, IF hub THEN "curated" ELSE "claimed", t,
       _rank_candidates(Get(pt, "rankWeights", <<>>), t.trustScore,
                        _relevance_score(c, query_str),
                        IF hub THEN 500
                        ELSE _distance_score(DistMiles(c.distanceMiles, radius), radius),
                        _review_score(c.rating)))]

EvalCandidate(matrix, pt, c, query_str, radius, hub) ==
  EvalTrusted(pt, c, query_str, radius, hub,
              _evaluate_trust(matrix, c.sources, Get(pt, "trustGates", <<>>)))

(* the evaluation e of one candidate added to acc = [found, evals] *)
Accumulate(acc, e) ==
  [found |-> IF e.kept THEN Append(acc.found, e.result) ELSE acc.found,
   evals |-> Append(acc.evals, [partnerType |-> e.partnerType, partnerId |-> e.partnerId,
                                gates |-> e.gates, kept |-> e.kept])]

(* The hub loop: every curated candidate is evaluated, no break *)
RECURSIVE HubLoop(_, _, _, _, _)
HubLoop(matrix, pt, query_str, cands, acc) ==
  IF cands = <<>> THEN acc
  ELSE HubLoop(matrix, pt, query_str, Tail(cands),
               Accumulate(acc, EvalCandidate(matrix, pt, Head(cands), query_str, 0, TRUE)))

(* The candidate loop of one query: it breaks once found_for_type holds    *)
(* min_results entries                                                     *)
RECURSIVE CandLoop(_, _, _, _, _, _, _)
RECURSIVE CandNext(_, _, _, _, _, _, _, _)
(* a candidate loop that tests the minimum only after its last candidate *)
CandNextUnbroken(matrix, pt, query_str, radius, min_results, cands, acc, e) ==
  CandLoop(matrix, pt, query_str, radius, min_results, Tail(cands), Accumulate(acc, e))

CandNext(matrix, pt, query_str, radius, min_results, cands, acc, e) ==
  IF e.kept /\ Len(acc.found) + 1 >= min_results THEN Accumulate(acc, e)
  ELSE CandLoop(matrix, pt, query_str, radius, min_results, Tail(cands),
                Accumulate(acc, e))

CandLoop(matrix, pt, query_str, radius, min_results, cands, acc) ==
  IF cands = <<>> THEN acc
  ELSE CandNext(matrix, pt, query_str, radius, min_results, cands, acc,
                EvalCandidate(matrix, pt, Head(cands), query_str, radius, FALSE))

(* The radii tried for a non-hub partner type *)
WithinMax(radii, max_radius) ==
  Keep(radii, [i \in 1..Len(radii) |-> radii[i] <= max_radius])

Radii(base_radius, max_radius) ==
  WithinMax(<<base_radius>>
            \o (IF base_radius < 50 THEN <<50>> ELSE <<>>)
            \o (IF base_radius # 100 THEN <<100>> ELSE <<>>), max_radius)

(* int(payload.location.radiusMiles or default_radius) *)
BaseRadius(radiusMiles, default_radius) ==
  IF radiusMiles = Nothing \/ radiusMiles = Some(0) THEN default_radius
  ELSE radiusMiles[1]

(* The (radius, query) pairs in the order of the two nested loops *)
RECURSIVE RadiusQueryPairs(_, _)
RadiusQueryPairs(radii, queries) ==
  IF radii = <<>> THEN <<>>
  ELSE [i \in 1..Len(queries) |-> [radius |-> Head(radii), q |-> queries[i]]]
       \o RadiusQueryPairs(Tail(radii), queries)

(* provider.search(PartnerDiscoveryQuery(..)) against the places index     *)
(* world: the listing it returns for q, or the error it raises once the    *)
(* provider's own retries are used up.  [ok, candidates]                   *)
ProviderSearch(world, q) ==
  IF q.partner_type \in world.fail
  THEN [ok |-> FALSE, candidates |-> <<>>]
  ELSE [ok |-> TRUE, candidates |-> Get(world.lists, q.partner_type, <<>>)]

(* The body of the query loop for the pairs left; st = [cache, found,      *)
(* evals, log, raised].  An exception of provider.search ends the handler. *)
RECURSIVE PairLoop(_, _, _, _, _, _, _, _)
RECURSIVE PairNext(_, _, _, _, _, _, _, _)

(* what one lookup records: the key, whether it hit, whether the provider  *)
(* answered, and the candidates the loop goes on with                      *)
LogEntry(cache_key, cached, found) ==
  [key |-> cache_key, hit |-> cached.hit, ok |-> cached.hit \/ found.ok,
   candidates |-> IF cached.hit THEN cached.payload.candidates ELSE found.candidates]

(* the cache after the lookup and, on a miss, after _cache_set *)
CacheAfter(cache_key, cached, found, now) ==
  IF cached.hit THEN cached.cache
  ELSE _cache_set(cached.cache, cache_key, [candidates |-> found.candidates], now)

PairState(st, cache1, entry, acc) ==
  [cache |-> cache1, found |-> acc.found, evals |-> acc.evals,
   log |-> Append(st.log, entry), raised |-> FALSE]

(* a handler that stores the empty answer of a failed search *)
PairFetchedStoresFailure(matrix, pt, now, min_results, radius, query_str, st, cache_key, cached, found) ==
  IF ~cached.hit /\ ~found.ok
  THEN [st EXCEPT !.cache = CacheAfter(cache_key, cached, found, now),
                  !.log = Append(st.log, LogEntry(cache_key, cached, found)),
                  !.raised = TRUE]
  ELSE PairState(st, CacheAfter(cache_key, cached, found, now),
                 LogEntry(cache_key, cached, found),
                 CandLoop(matrix, pt, query_str, radius, min_results,
                          IF cached.hit THEN cached.payload.candidates
                          ELSE found.candidates,
                          [found |-> st.found, evals |-> st.evals]))

PairFetched(matrix, pt, now, min_results, radius, query_str, st, cache_key, cached, found) ==
  IF ~cached.hit /\ ~found.ok
  THEN [st EXCEPT !.cache = cached.cache,
                  !.log = Append(st.log, LogEntry(cache_key, cached, found)),
                  !.raised = TRUE]
  ELSE PairState(st, CacheAfter(cache_key, cached, found, now),
                 LogEntry(cache_key, cached, found),
                 CandLoop(matrix, pt, query_str, radius, min_results,
                          IF cached.hit THEN cached.payload.candidates
                          ELSE found.candidates,
                          [found |-> st.found, evals |-> st.evals]))

PairKeyed(matrix, payload, world, now, pt, min_results, radius, query_str, st, cache_key) ==
  PairFetched(matrix, pt, now, min_results, radius, query_str, st, cache_key,
              _cache_get(st.cache, cache_key, now),
              ProviderSearch(world,
                [query |-> query_str, city |-> payload.location.city,
                 region |-> payload.location.region, radius_miles |-> radius,
                 partner_type |-> pt.type]))

PairBody(matrix, payload, world, now, pt, min_results, radius, query_str, st) ==
  PairKeyed(matrix, payload, world, now, pt, min_results, radius, query_str, st,
            _mk_cache_key(payload, pt.type, radius, query_str))

(* loops that go on after the minimum is met *)
PairNextUnbroken(matrix, payload, world, now, pt, min_results, pairs, st1) ==
  IF st1.raised THEN st1
  ELSE PairLoop(matrix, payload, world, now, pt, min_results, Tail(pairs), st1)

PairNext(matrix, payload, world, now, pt, min_results, pairs, st1) ==
  IF st1.raised \/ Len(st1.found) >= min_results THEN st1
  ELSE PairLoop(matrix, payload, world, now, pt, min_results, Tail(pairs), st1)

PairLoop(matrix, payload, world, now, pt, min_results, pairs, st) ==
  IF pairs = <<>> THEN st
  ELSE IF Get(Head(pairs).q, "q", <<>>) = <<>>
  THEN PairLoop(matrix, payload, world, now, pt, min_results, Tail(pairs), st)
  ELSE PairNext(matrix, payload, world, now, pt, min_results, pairs,
         PairBody(matrix, payload, world, now, pt, min_results, Head(pairs).radius,
                  WithHints(Substitute(Get(Head(pairs).q, "q", <<>>), payload), payload),
                  st))

(* name|phone|website|address|city|region, each trimmed and lower-cased *)
_fingerprint(r) ==
  LET c == r.contact
  IN  _norm(r.name) \o <<"|">> \o _norm(c.phone) \o <<"|">> \o _norm(c.website)
      \o <<"|">> \o _norm(c.address) \o <<"|">> \o _norm(c.city) \o <<"|">>
      \o _norm(c.region)

SortByScore(results) ==
  SortedDesc(results, [i \in 1..Len(results) |-> results[i].ranking.score])

(* The dedup loop over the sorted list: the first of each fingerprint stays *)
RECURSIVE DedupLoop(_, _, _)
RECURSIVE DedupSeen(_, _, _, _)
DedupSeen(sorted, seen_fp, deduped, fp) ==
  IF fp \in seen_fp THEN DedupLoop(Tail(sorted), seen_fp, deduped)
  ELSE DedupLoop(Tail(sorted), seen_fp \cup {fp}, Append(deduped, Head(sorted)))

DedupLoop(sorted, seen_fp, deduped) ==
  IF sorted = <<>> THEN deduped
  ELSE DedupSeen(sorted, seen_fp, deduped, _fingerprint(Head(sorted)))

(* a dedup that keeps the first seen of each fingerprint, without sorting *)
DedupFirstSeen(found_for_type) == DedupLoop(found_for_type, {}, <<>>)

(* a dedup that only sorts *)
SortOnly(found_for_type) == SortByScore(found_for_type)

Dedup(found_for_type) == DedupLoop(SortByScore(found_for_type), {}, <<>>)

(* all_results left in the order the partner types added them *)
AllResultsAsAdded(all_results) == all_results

(* sorted(all_results, key=score, reverse=True) *)
AllResultsSorted(all_results) == SortByScore(all_results)

(* What one partner type adds to all_results: [cache, evals, log, raised,  *)
(* found, deduped, added]                                                  *)
HubResult(matrix, st, acc) ==
  [cache |-> st.cache, evals |-> acc.evals, log |-> st.log, raised |-> FALSE,
   found |-> acc.found, deduped |-> acc.found,
   added |-> Take(acc.found, Get(matrix, "maxResultsPerType", 8))]

HubType(matrix, payload, pt, st) ==
  HubResult(matrix, st,
            HubLoop(matrix, pt, WithHints(HubQuery, payload),
                    _curated_luxury_hub_mailin_candidates(payload),
                    [found |-> <<>>, evals |-> st.evals]))

GeoResult(matrix, r) ==
  [cache |-> r.cache, evals |-> r.evals, log |-> r.log, raised |-> r.raised,
   found |-> r.found, deduped |-> Dedup(r.found),
   added |-> Take(Dedup(r.found), Get(matrix, "maxResultsPerType", 8))]

GeoType(matrix, payload, world, now, pt, st) ==
  GeoResult(matrix,
    PairLoop(matrix, payload, world, now, pt, Get(matrix, "minResults", 6),
             RadiusQueryPairs(
               Radii(BaseRadius(payload.location.radiusMiles,
                                Get(matrix, "defaultRadiusMiles", 25)),
                     Get(matrix, "maxRadiusMiles", 100)),
               Get(pt, "queries", <<>>)),
             [cache |-> st.cache, found |-> <<>>, evals |-> st.evals,
              log |-> st.log, raised |-> FALSE]))

(* The loop over the partner types of the scenario; st = [cache,           *)
(* all_results, evals, log, trace, raised]                                 *)
RECURSIVE TypeLoop(_, _, _, _, _, _)

(* the handler's state once partner type pt has added r *)
TypeStep(st, pt, r) ==
  [cache |-> r.cache,
   all_results |-> IF r.raised THEN st.all_results ELSE st.all_results \o r.added,
   evals |-> r.evals, log |-> r.log,
   trace |-> Append(st.trace, [partnerType |-> pt.type, found |-> r.found,
                               deduped |-> r.deduped, added |-> r.added,
                               raised |-> r.raised]),
   raised |-> r.raised]

TypeLoop(matrix, payload, world, now, partner_types, st) ==
  IF partner_types = <<>> \/ st.raised THEN st
  ELSE IF Get(Head(partner_types), "type", "") = ""
  THEN TypeLoop(matrix, payload, world, now, Tail(partner_types), st)
  ELSE TypeLoop(matrix, payload, world, now, Tail(partner_types),
         TypeStep(st, Head(partner_types),
                  IF Head(partner_types).type = "luxury_hub_mailin"
                  THEN HubType(matrix, payload, Head(partner_types), st)
                  ELSE GeoType(matrix, payload, world, now, Head(partner_types), st)))

(* The handler: [cache, response, evals, log, trace] *)
Typed(partner_types) ==
  Keep(partner_types,
       [i \in 1..Len(partner_types) |-> Get(partner_types[i], "type", "") # ""])

(* distanceMiles: Optional[float] = None, validated when the response is   *)
(* built from the result records                                           *)
DispositionPartnerResultDTO(r) == r.distanceMiles = Nothing \/ IsFloat(r.distanceMiles)

(* DispositionPartnersSearchResponse(results = ...) raises a validation    *)
(* error when one of the records it is given is not a valid result         *)
ValidResults(results) ==
  \A i \in 1..Len(results) : DispositionPartnerResultDTO(results[i])

Handled(matrix, scenario, partner_types, st) ==
  [cache |-> st.cache, evals |-> st.evals, log |-> st.log, trace |-> st.trace,
   all_results |-> st.all_results,
   response |->
     IF \/ st.raised
        \/ ~ValidResults(Take(AllResultsSorted(st.all_results),
                              Get(matrix, "maxResultsTotal", 15)))
     THEN [status |-> "error", scenarioId |-> Get(scenario, "id", "unknown"),
           partnerTypes |-> <<>>, results |-> <<>>]
     ELSE [status |-> "ok", scenarioId |-> Get(scenario, "id", "unknown"),
           partnerTypes |-> [i \in 1..Len(Typed(partner_types)) |->
                               Typed(partner_types)[i].type],
           results |-> Take(AllResultsSorted(st.all_results),
                            Get(matrix, "maxResultsTotal", 15))]]

SearchTypes(matrix, payload, world, cache, now, scenario) ==
  Handled(matrix, scenario, Get(scenario, "partnerTypes", <<>>),
          TypeLoop(matrix, payload, world, now, Get(scenario, "partnerTypes", <<>>),
                   [cache |-> cache, all_results |-> <<>>, evals |-> <<>>,
                    log |-> <<>>, trace |-> <<>>, raised |-> FALSE]))

disposition_partners_search(matrix, payload0, world, cache, now) ==
  SearchTypes(matrix, _normalize_brand_hints(payload0), world, cache, now,
              _pick_scenario(matrix, payload0))

(***************************************************************************)
(* Inputs: requests, matrices, listings of the places index                *)
(***************************************************************************)

S_shop  == <<"s", "h", "o", "p">>
S_jewel == <<"j", "e", "w", "e", "l">>
S_id    == <<"i", "d">>
S_US    == <<"U", "S">>
S_A     == <<"A">>
S_max   == <<"m", "a", "x">>
S_HIGH  == <<"H", "I", "G", "H">>
S_gucci == <<"g", "u", "c", "c", "i">>
S_designer == <<"d", "e", "s", "i", "g", "n", "e", "r", " ", "f", "a", "s", "h", "i", "o", "n">>

Request(city, category, radius, keywords) ==
  [chosenPath |-> S_A,
   scenario |-> [category |-> category, valueBand |-> Some(S_HIGH),
                 bulky |-> Some(FALSE), fragile |-> Nothing, goal |-> Some(S_max),
                 brandHints |-> <<>>],
   location |-> [city |-> city, region |-> S_id, countryCode |-> S_US,
                 radiusMiles |-> radius],
   hints |-> IF keywords = <<>> THEN Nothing ELSE Some([keywords |-> keywords])]

(* The same search typed twice (the city differs in case and blanks only), *)
(* and a search with its own radius and two keyword hints.                 *)
Requests ==
  { Request(<<"B", "o">>, Some(S_jewel), Nothing, <<>>),
    Request(<<"b", "o", " ">>, Some(<<"J", "e", "w", "e", "l">>), Nothing, <<>>),
    Request(<<"B", "o">>, Nothing, Some(60), <<S_gucci, S_designer>>) }

G_business_type == <<"business_type">>
G_insured == <<"insured">>

GateDefs ==
  (G_business_type :>
     [type |-> "keyword_any", keywords |-> <<S_shop>>,
      sources |-> <<"website_snippet", "place_details">>,
      sourceWeights |-> [website_snippet |-> 800]])
  @@ (G_insured :>
     [type |-> "keyword_any", keywords |-> <<<<"i", "n", "s", "u", "r", "e", "d">>>>,
      sources |-> <<"place_details">>,
      sourceWeights |-> [place_details |-> 1000]])
  @@ (<<"authentication">> :>
     [type |-> "keyword_any",
      keywords |-> <<<<"a", "u", "t", "h", "e", "n", "t", "i", "c", "a", "t", "i", "o", "n">>>>,
      sources |-> <<"website_snippet">>,
      sourceWeights |-> [website_snippet |-> 900]])

Q_shop_city == [q |-> S_shop \o <<" ", "{city}">>]
Q_cat_region == [q |-> <<"{category}", " ", "{region}">>]
Q_auction == [q |-> <<"a", "u", "c", "t", "i", "o", "n", " ", "{city}">>]

PT_consignment ==
  [type |-> "consignment", queries |-> <<Q_shop_city, Q_cat_region>>,
   trustGates |-> <<<<"required:", " ", "business_type">>, G_insured>>,
   rankWeights |-> <<>>]

(* its required gate "licensed" has no definition in the matrix *)
PT_auction ==
  [type |-> "auction", queries |-> <<Q_auction>>,
   trustGates |-> <<<<"required:", "licensed">>, G_business_type>>,
   rankWeights |-> [trustScore |-> 300, distanceScore |-> 500]]

PT_hub ==
  [type |-> "luxury_hub_mailin", queries |-> <<>>,
   trustGates |-> <<<<"required:", "authentication">>>>,
   rankWeights |-> <<>>]

SC_jewel ==
  [id |-> "jewelry_high", priority |-> 10,
   when |-> [categories |-> [kind |-> "list", items |-> <<<<"J", "e", "w", "e", "l", " ">>>>],
             valueBand |-> [kind |-> "star"]],
   partnerTypes |-> <<PT_consignment, PT_auction>>]

SC_lux ==
  [id |-> "luxury", priority |-> 5,
   when |-> [goals |-> [kind |-> "list", items |-> <<S_max>>]],
   partnerTypes |-> <<PT_hub, PT_auction>>]

SC_any ==
  [id |-> "default_any_item", when |-> <<>>,
   partnerTypes |-> <<PT_auction, PT_consignment>>]

(***************************************************************************)
(* Matrices for scenario selection                                         *)
(***************************************************************************)

When_jewel == [categories |-> [kind |-> "list", items |-> <<S_jewel>>]]
When_goal == [goals |-> [kind |-> "scalar", v |-> S_max]]
When_low == [valueBand |-> [kind |-> "scalar", v |-> <<"L", "O", "W">>]]

ScenarioPool ==
  { [id |-> "s1", priority |-> 10, when |-> When_jewel, partnerTypes |-> <<>>],
    [id |-> "s2", priority |-> 10, when |-> When_goal, partnerTypes |-> <<>>],
    [id |-> "s3", when |-> <<>>, partnerTypes |-> <<>>],
    [id |-> "s4", priority |-> -1, when |-> When_goal, partnerTypes |-> <<>>],
    [id |-> "s5", priority |-> 20, when |-> When_low, partnerTypes |-> <<>>],
    [id |-> "s6", priority |-> 0, partnerTypes |-> <<>>] }

MaxScenarios == 3

(* the scenario lists of up to MaxScenarios scenarios with distinct ids *)
ScenarioLists ==
  { q \in UNION { [1..n -> ScenarioPool] : n \in 0..MaxScenarios } :
      \A i, j \in 1..Len(q) : i # j => q[i].id # q[j].id }

(* without defaultScenarioId, and with one that names a scenario of the    *)
(* pool or none                                                            *)
PickMatrices ==
  { [scenarios |-> sc] : sc \in ScenarioLists }
  \cup { [scenarios |-> sc, defaultScenarioId |-> d] :
           sc \in ScenarioLists, d \in {"s1", "s5", "zz"} }

(* The bounds of the result lists, drawn per matrix from 1..Max* *)
MaxMinResults == 3
MaxPerType == 2
MaxTotal == 3

Matrices ==
  { [scenarios |-> <<SC_any, SC_lux, SC_jewel>>, defaultScenarioId |-> "default_any_item",
     trustGateDefinitions |-> GateDefs, defaultRadiusMiles |-> 25,
     maxRadiusMiles |-> 50, minResults |-> MaxMinResults,
     maxResultsPerType |-> MaxPerType, maxResultsTotal |-> MaxTotal],
    [scenarios |-> <<SC_any, SC_jewel>>,
     trustGateDefinitions |-> GateDefs, minResults |-> 2,
     maxResultsPerType |-> 1, maxResultsTotal |-> 1],
    [scenarios |-> <<SC_lux>>,
     trustGateDefinitions |-> GateDefs, minResults |-> MaxMinResults],
    [scenarios |-> <<SC_lux>>,
     trustGateDefinitions |-> GateDefs, minResults |-> 1,
     maxResultsPerType |-> 1, maxResultsTotal |-> 1],
    [scenarios |-> <<SC_lux>>,
     trustGateDefinitions |-> GateDefs, minResults |-> 1,
     maxResultsPerType |-> MaxPerType, maxResultsTotal |-> 1] }
  \cup { m @@ [trustGateDefinitions |-> GateDefs] :
           m \in { p \in PickMatrices :
                     \/ p.scenarios = <<>>
                     \/ /\ Len(p.scenarios) = 2
                        /\ p.scenarios[1].id = "s1" /\ p.scenarios[2].id = "s5"
                        /\ Get(p, "defaultScenarioId", "s1") # "s5" } }

Contact(phone, address) ==
  [phone |-> phone, website |-> None, address |-> address, city |-> <<"B", "o">>,
   region |-> S_id]

(* Listings of the places index.  K1 and K2 are one business listed twice  *)
(* (same contact data up to case and blanks), K3 denies the keyword, K4    *)
(* carries it in the weaker source only.                                   *)
K1 ==
  [partnerId |-> "gplaces:1", name |-> <<"A", "c", "e">>,
   contact |-> Contact(<<"1">>, <<"x">>), distanceMiles |-> Some(5), rating |-> Some(45),
   sources |-> [website_snippet |-> S_jewel \o <<" ">> \o S_shop,
                place_details |-> <<"i", "n", "s", "u", "r", "e", "d">>,
                reviews_snippet |-> <<>>]]

K2 ==
  [partnerId |-> "gplaces:2", name |-> <<" ", "A", "C", "E">>,
   contact |-> Contact(<<"1", " ">>, <<"X">>), distanceMiles |-> Some(20),
   rating |-> Nothing,
   sources |-> [website_snippet |-> S_shop, place_details |-> None,
                reviews_snippet |-> <<>>]]

K3 ==
  [partnerId |-> "gplaces:3", name |-> <<"B", "o", "b">>,
   contact |-> Contact(<<"3">>, <<"y">>), distanceMiles |-> Some(2), rating |-> Some(50),
   sources |-> [website_snippet |-> <<"n", "o", "t", " ">> \o S_shop,
                place_details |-> <<>>, reviews_snippet |-> <<>>]]

K4 ==
  [partnerId |-> "gplaces:4", name |-> <<"C", "y">>,
   contact |-> Contact(None, <<"z">>), distanceMiles |-> Nothing, rating |-> Some(30),
   sources |-> [website_snippet |-> <<"c", "a", "f", "e">>,
                place_details |-> S_shop, reviews_snippet |-> <<>>]]

Listings == { <<K1, K3, K4>>, <<K2, K4, K1>> }

(* a listing whose distance is not a number and that has no rating *)
K5 ==
  [partnerId |-> "gplaces:5", name |-> <<"D", "e", "e">>,
   contact |-> Contact(<<"5">>, <<"w">>), distanceMiles |-> Unparseable,
   rating |-> Nothing,
   sources |-> [website_snippet |-> S_shop, place_details |-> None,
                reviews_snippet |-> <<>>]]

(* What a provider answers that does not check the fields of its listings *)
MalformedWorlds ==
  { [lists |-> [consignment |-> c, auction |-> <<K4>>], fail |-> f] :
      c \in {<<K5, K1>>, <<K3, K4, K2, K5>>, <<K1, K3, K4>>},
      f \in {{}, {"auction"}} }

(* What the index answers per partner type, and the partner types whose    *)
(* search fails                                                            *)
Worlds ==
  { [lists |-> [consignment |-> c, auction |-> a], fail |-> f] :
      c \in Listings, a \in {<<K2, K4, K1>>, <<K4>>},
      f \in {{}, {"auction"}} }

(***************************************************************************)
(* GooglePlacesNewProvider: text search with retries, then enrichment      *)
(***************************************************************************)

max_attempts == 3

(* time.sleep(0.4 * attempt), in tenths of a second *)
BackoffBase == 4

(* places[:12] *)
EnrichLimit == 12

(* a fixed backoff *)
BackoffFixed(attempt) == BackoffBase

Backoff(attempt) == BackoffBase * attempt

(* a retry budget of one attempt less *)
MayRetryShort(attempt) == attempt < max_attempts - 1

(* attempt < max_attempts *)
MayRetry(attempt) == attempt < max_attempts

(* the statuses the loop retries without raising *)
IsRetryStatus(status_code) ==
  \/ status_code \in {408, 429}
  \/ (500 <= status_code /\ status_code <= 599)
  \/ status_code = 400

(* resp.raise_for_status() raises HTTPStatusError on a 4xx or 5xx *)
RaisesForStatus(status_code) == status_code >= 400

HTTPStatusError(status_code) == [kind |-> "HTTPStatusError", status |-> status_code]

TimeoutException == [kind |-> "TimeoutException", status |-> 0]
NetworkError == [kind |-> "NetworkError", status |-> 0]

(* One pass of the retry loop on the outcome of the POST.  st is [pc,       *)
(* attempt, sleeps, last_exc, raised]; a response is [kind |-> "response",   *)
(* status], anything else is the exception the POST raised.                 *)
RetryStep(st, outcome) ==
  LET again(exc) == [st EXCEPT !.attempt = st.attempt + 1,
                               !.sleeps = Append(st.sleeps, Backoff(st.attempt)),
                               !.last_exc = exc]
      caught(exc) == IF MayRetry(st.attempt) THEN again(Some(exc))
                     ELSE [st EXCEPT !.pc = "raised", !.last_exc = Some(exc),
                                     !.raised = Some(exc)]
  IN  IF outcome.kind = "response"
      THEN IF IsRetryStatus(outcome.status) /\ MayRetry(st.attempt)
           THEN again(st.last_exc)
           ELSE IF RaisesForStatus(outcome.status)
                THEN caught(HTTPStatusError(outcome.status))
                ELSE [st EXCEPT !.pc = "enrich"]
      ELSE caught(outcome)

(* the normalized place of _search_text: id and display name *)
NormalizedPlace(pl) ==
  [_google_place_id |-> pl.id,
   name |-> IF pl.displayName = Nothing THEN <<"(unknown)">> ELSE pl.displayName[1]]

(* _merge_details: the detail's display name wins when it has one *)
_merge_details(base, details) ==
  [base EXCEPT !.name = IF details.displayName = Nothing THEN base.name
                        ELSE details.displayName[1]]

(* _to_candidate: identity and name of the candidate *)
_to_candidate(pl, partner_type) ==
  [partnerId |-> <<"gplaces:", IF pl._google_place_id = Nothing THEN "unknown"
                               ELSE pl._google_place_id[1]>>,
   name |-> pl.name,
   partnerType |-> partner_type]

(* The enrichment loop of search: details maps a place id to its detail    *)
(* record, or to Nothing where the detail request failed.                  *)
Enriched(places, details, partner_type) ==
  LET head == Take(places, EnrichLimit)
  IN  [i \in 1..Len(head) |->
         LET p0 == head[i]
             place_id == p0._google_place_id
             p == IF place_id # Nothing /\ details[place_id[1]] # Nothing
                  THEN _merge_details(p0, details[place_id[1]][1])
                  ELSE p0
         IN  _to_candidate(p, partner_type)]

(* What the places index can answer *)
Statuses == {200, 400, 404, 408, 429, 500, 599}

Outcomes ==
  [kind : {"response"}, status : Statuses] \cup {TimeoutException, NetworkError}

Place(id) == [id |-> Some(id), displayName |-> Some(<<"n", id>>)]

MaxPlaces == 13

PlaceIds == [i \in 1..MaxPlaces |->
               <<"a", "b", "c", "d", "e", "f", "g", "h", "i", "j", "k", "l", "m",
                 "n", "o", "p">>[i]]

PlaceLists ==
  { <<>>,
    <<Place("a"), [id |-> Nothing, displayName |-> Nothing], Place("b")>>,
    [i \in 1..MaxPlaces |-> Place(PlaceIds[i])] }

DetailOf(id) == Some([displayName |-> Some(<<"N", id>>)])

DetailWorlds ==
  LET ids == {PlaceIds[i] : i \in 1..MaxPlaces}
  IN  { [id \in ids |-> DetailOf(id)],
        [id \in ids |-> Nothing],
        [id \in ids |-> IF id = "a" THEN Nothing
                        ELSE IF id = "b" THEN Some([displayName |-> Nothing])
                        ELSE DetailOf(id)] }

(***************************************************************************)
(* The engine as a state machine                                           *)
(***************************************************************************)

VARIABLES
  matrix,     \* the policy matrix of the process
  cache,      \* _DISPOSITION_CACHE
  now,        \* time.time()
  nreq,       \* requests served
  resp,       \* the response of the last request
  evals,      \* the candidates the last request evaluated, with their gates
  log,        \* the cache lookups of the last request
  trace,      \* per partner type of the last request: found, deduped, added
  fills,      \* per key, the last listing the provider returned, and when
  prefills,   \* fills as it was before the last request
  script,     \* what the places index answers to the 1st, 2nd, 3rd POST
  listing,    \* the places of a 200 answer
  retry,      \* the retry loop: [pc, attempt, sleeps, last_exc, raised]
  sent,       \* the outcomes of the POSTs sent so far
  returned,   \* what search returned
  pickreq,    \* the request a scenario was picked for
  picked,     \* the scenario picked for it
  call,       \* the arguments of a helper function called on its own
  result,     \* what that call returned
  env,        \* os.environ: PARTNER_DISCOVERY_PROVIDER, GOOGLE_PLACES_API_KEY
  lru,        \* the entries of the lru_cache of get_partner_discovery_provider
  made,       \* provider instances constructed so far
  history,    \* the calls of get_partner_discovery_provider and what they gave
  running,    \* the request whose handler the event loop runs, or 0
  reqs,       \* per overlapping request: where its handler stands
  invoked,    \* provider.search invocations of the overlapping requests
  pops        \* the entries _cache_get removed for them: by whom, at what age

engineVars == <<matrix, cache, now, nreq, resp, evals, log, trace, fills, prefills>>

retryVars == <<script, listing, retry, sent, returned>>

pickVars == <<pickreq, picked>>

callVars == <<call, result>>

factoryVars == <<env, lru, made, history>>

loopVars == <<running, reqs, invoked, pops>>

vars == <<engineVars, retryVars, pickVars, callVars, factoryVars, loopVars>>

MaxRequests == 2
MaxClock == 86402

NoResponse == [status |-> "none", scenarioId |-> "", partnerTypes |-> <<>>, results |-> <<>>]

(* fills after the lookups of log, made at time t *)
RECURSIVE FillsAfter(_, _, _)
FillsAfter(f, lg, t) ==
  IF lg = <<>> THEN f
  ELSE LET e == Head(lg)
       IN  FillsAfter(IF ~e.hit /\ e.ok
                      THEN [k \in DOMAIN f \cup {e.key} |->
                              IF k = e.key THEN [t |-> t, candidates |-> e.candidates]
                              ELSE f[k]]
                      ELSE f,
                      Tail(lg), t)

RetryIdle == [pc |-> "idle", attempt |-> 1, sleeps |-> <<>>, last_exc |-> Nothing,
              raised |-> Nothing]

EngineIdle ==
  /\ cache = <<>>
  /\ now = 0
  /\ nreq = 0
  /\ resp = NoResponse
  /\ evals = <<>>
  /\ log = <<>>
  /\ trace = <<>>
  /\ fills = <<>>
  /\ prefills = <<>>

ProviderIdle ==
  /\ script = <<>>
  /\ listing = <<>>
  /\ retry = RetryIdle
  /\ sent = <<>>
  /\ returned = Nothing

PickIdle ==
  /\ pickreq = Nothing
  /\ picked = Nothing

CallIdle ==
  /\ call = Nothing
  /\ result = Nothing

(* no overlapping requests *)
LoopIdle ==
  /\ running = 0
  /\ reqs = <<>>
  /\ invoked = 0
  /\ pops = <<>>

(* no variable set, no provider made *)
FactoryIdle ==
  /\ env = [provider |-> Nothing, api_key |-> Nothing]
  /\ lru = <<>>
  /\ made = 0
  /\ history = <<>>

Init ==
  /\ matrix \in Matrices
  /\ EngineIdle
  /\ ProviderIdle
  /\ PickIdle
  /\ CallIdle
  /\ FactoryIdle
  /\ LoopIdle

(***************************************************************************)
(* get_partner_discovery_provider under functools.lru_cache(maxsize=1)     *)
(***************************************************************************)

S_stub == <<"s", "t", "u", "b">>
S_google == <<"g", "o", "o", "g", "l", "e">>

(* os.getenv(name) is Nothing (unset) or Some(text) *)
Envs ==
  { [provider |-> Nothing, api_key |-> Nothing],
    [provider |-> Some(<<" ", "S", "t", "u", "b">>), api_key |-> Nothing],
    [provider |-> Some(S_google), api_key |-> Some(<<"k">>)],
    [provider |-> Some(<<"G", "o", "o", "g", "l", "e", " ">>), api_key |-> Some(<<" ">>)],
    [provider |-> Some(<<"b", "i", "n", "g">>), api_key |-> Some(<<"k">>)] }

(* stub_fn: not given, the handler's _stub_places_search, another function *)
StubFns == { Nothing, Some("_stub_places_search"), Some("other") }

MaxCalls == 3

(* os.getenv(name) or default *)
GetenvOr(v, default) == IF v = Nothing \/ v[1] = <<>> THEN default ELSE v[1]

ValueError == [ok |-> FALSE, kind |-> "ValueError", n |-> 0]

(* The body of the function: the provider it constructs, the n-th instance *)
(* of the process, or the ValueError it raises                             *)
(* a factory that builds the Google provider without asking for the key *)
ProviderForAnyKey(provider, api_key, stub_fn, n) ==
  IF provider = S_stub
  THEN IF stub_fn = Nothing THEN ValueError
       ELSE [ok |-> TRUE, kind |-> "StubPartnerDiscoveryProvider", n |-> n]
  ELSE IF provider = S_google
  THEN [ok |-> TRUE, kind |-> "GooglePlacesNewProvider", n |-> n]
  ELSE ValueError

ProviderFor(provider, api_key, stub_fn, n) ==
  IF provider = S_stub
  THEN IF stub_fn = Nothing THEN ValueError
       ELSE [ok |-> TRUE, kind |-> "StubPartnerDiscoveryProvider", n |-> n]
  ELSE IF provider = S_google
  THEN IF api_key = <<>> THEN ValueError
       ELSE [ok |-> TRUE, kind |-> "GooglePlacesNewProvider", n |-> n]
  ELSE ValueError

get_partner_discovery_provider(stub_fn, e, n) ==
  ProviderFor(LowerAll(RStrip(LStrip(GetenvOr(e.provider, S_stub)))),
              RStrip(LStrip(GetenvOr(e.api_key, <<>>))), stub_fn, n)

(* an lru_cache that also keeps what a raising call gave *)
LruAfterAnyCall(entries, key, out) == <<[key |-> key, value |-> out]>>

(* lru_cache(maxsize=1): a value returned replaces the entry kept, a call  *)
(* that raises leaves the cache as it is                                   *)
LruAfter(entries, key, out) ==
  IF out.ok THEN <<[key |-> key, value |-> out]>> ELSE entries

LruHit(entries, key) == entries # <<>> /\ entries[1].key = key

(* the environment of the process changes *)
SetEnv(e) ==
  /\ e # env
  /\ env' = e
  /\ UNCHANGED <<lru, made, history, engineVars, retryVars, pickVars, callVars, loopVars>>

(* a miss runs the body *)
Missed(stub_fn, out) ==
  /\ lru' = LruAfter(lru, stub_fn, out)
  /\ made' = IF out.ok THEN made + 1 ELSE made
  /\ history' = Append(history, [stub_fn |-> stub_fn, env |-> env, out |-> out])

(* one call: a hit returns the entry kept *)
Provided(stub_fn) ==
  IF LruHit(lru, stub_fn)
  THEN /\ history' = Append(history, [stub_fn |-> stub_fn, env |-> env,
                                      out |-> lru[1].value])
       /\ UNCHANGED <<lru, made>>
  ELSE Missed(stub_fn, get_partner_discovery_provider(stub_fn, env, made + 1))

(* what the call gives: the provider, or the ValueError it raises *)
ProviderOf(stub_fn) ==
  IF LruHit(lru, stub_fn) THEN lru[1].value
  ELSE get_partner_discovery_provider(stub_fn, env, made + 1)

(* the handler when the factory raises: nothing was searched *)
Refused(matrix_, payload, cache_) ==
  [cache |-> cache_, evals |-> <<>>, log |-> <<>>, trace |-> <<>>, all_results |-> <<>>,
   response |-> [status |-> "error",
                 scenarioId |-> Get(_pick_scenario(matrix_, payload), "id", "unknown"),
                 partnerTypes |-> <<>>, results |-> <<>>]]

(* POST /disposition/partners/search *)
Search(payload, world) ==
  /\ call = Nothing
  /\ nreq < MaxRequests
  /\ Provided(Some("_stub_places_search"))
  /\ \E r \in {IF ProviderOf(Some("_stub_places_search")).ok
               THEN disposition_partners_search(matrix, payload, world, cache, now)
               ELSE Refused(matrix, payload, cache)} :
         /\ cache' = r.cache
         /\ resp' = r.response
         /\ evals' = r.evals
         /\ log' = [i \in 1..Len(r.log) |-> [t |-> now] @@ r.log[i]]
         /\ trace' = r.trace
         /\ fills' = FillsAfter(fills, r.log, now)
         /\ prefills' = fills
  /\ pickreq' = Some(payload)
  /\ picked' = Some(_pick_scenario(matrix, payload))
  /\ nreq' = nreq + 1
  /\ UNCHANGED <<matrix, now, env, retryVars, callVars, loopVars>>

(* Time passes between requests *)
Advance(d) ==
  /\ call = Nothing
  /\ now + d <= MaxClock
  /\ now' = now + d
  /\ UNCHANGED <<matrix, cache, nreq, resp, evals, log, trace, fills, prefills,
                 retryVars, pickVars, callVars, factoryVars, loopVars>>

Next ==
  \/ \E payload \in Requests, world \in Worlds : Search(payload, world)
  \/ \E d \in {43200, 43201} : Advance(d)

Spec == Init /\ [][Next]_vars

(* The handler under every provider configuration, on matrices whose       *)
(* scenario has the hub type only, or the hub type and a searched one      *)
SC_hub == [id |-> "luxury_hub", when |-> <<>>, partnerTypes |-> <<PT_hub>>]

HubMatrices ==
  { [scenarios |-> <<sc>>, trustGateDefinitions |-> GateDefs, minResults |-> 1,
     maxResultsPerType |-> c] : sc \in {SC_hub, SC_lux}, c \in {1, MaxPerType} }

InitHub ==
  /\ matrix \in HubMatrices
  /\ EngineIdle /\ ProviderIdle /\ PickIdle /\ CallIdle /\ LoopIdle
  /\ env \in Envs
  /\ lru = <<>>
  /\ made = 0
  /\ history = <<>>

HubWorlds ==
  { w \in Worlds : w.lists.consignment = <<K1, K3, K4>> /\ w.lists.auction = <<K4>> }

NextHub ==
  \/ \E payload \in Requests, world \in HubWorlds : Search(payload, world)
  \/ \E e \in Envs : SetEnv(e)

SpecHub == InitHub /\ [][NextHub]_vars

(* The same handler behind a provider whose listings may be malformed *)
NextMalformed ==
  \/ \E payload \in Requests, world \in MalformedWorlds : Search(payload, world)
  \/ \E d \in {43200, 43201} : Advance(d)

SpecMalformed == Init /\ [][NextMalformed]_vars

(***************************************************************************)
(* One call of GooglePlacesNewProvider.search                              *)
(***************************************************************************)

InitRetry ==
  /\ matrix = [scenarios |-> <<>>]
  /\ EngineIdle
  /\ PickIdle
  /\ CallIdle
  /\ FactoryIdle
  /\ LoopIdle
  /\ script \in [1..max_attempts -> Outcomes]
  /\ listing \in PlaceLists
  /\ retry = RetryIdle
  /\ sent = <<>>
  /\ returned = Nothing

(* search calls _search_text *)
Call ==
  /\ retry.pc = "idle"
  /\ retry' = [retry EXCEPT !.pc = "post"]
  /\ UNCHANGED <<script, listing, sent, returned, engineVars, pickVars, callVars, factoryVars, loopVars>>

(* client.post and what the loop does with its outcome, the sleep included *)
Attempt ==
  /\ retry.pc = "post"
  /\ sent' = Append(sent, script[retry.attempt])
  /\ retry' = RetryStep(retry, script[retry.attempt])
  /\ UNCHANGED <<script, listing, returned, engineVars, pickVars, callVars, factoryVars, loopVars>>

(* the loop over places[:12], each with its detail request, and the return *)
Enrich(details) ==
  /\ retry.pc = "enrich"
  /\ returned' = Some(Enriched([i \in 1..Len(listing) |-> NormalizedPlace(listing[i])],
                               details, "consignment"))
  /\ retry' = [retry EXCEPT !.pc = "returned"]
  /\ UNCHANGED <<script, listing, sent, engineVars, pickVars, callVars, factoryVars, loopVars>>

NextRetry ==
  \/ Call
  \/ Attempt
  \/ \E details \in DetailWorlds : Enrich(details)

SpecRetry == InitRetry /\ [][NextRetry]_vars

(***************************************************************************)
(* _pick_scenario on its own                                               *)
(***************************************************************************)

InitPick ==
  /\ matrix \in PickMatrices
  /\ EngineIdle
  /\ ProviderIdle
  /\ PickIdle
  /\ CallIdle
  /\ FactoryIdle
  /\ LoopIdle

Pick(req) ==
  /\ picked = Nothing
  /\ pickreq' = Some(req)
  /\ picked' = Some(_pick_scenario(matrix, req))
  /\ UNCHANGED <<engineVars, retryVars, callVars, factoryVars, loopVars>>

NextPick == \E req \in Requests : Pick(req)

SpecPick == InitPick /\ [][NextPick]_vars

(***************************************************************************)
(* The helper functions called on their own                                *)
(***************************************************************************)

WhenKeys ==
  {"categories", "valueBand", "bulky", "fragile", "goals", "chosenPaths", "setMembership"}

(* The values a when-predicate gives to a key: the wildcard, null, a list  *)
(* and a scalar                                                            *)
WhenValues(key) ==
  {[kind |-> "star"], [kind |-> "null"]}
  \cup CASE key = "categories" ->
              {[kind |-> "list", items |-> <<<<"a", "r", "t">>, S_jewel>>],
               [kind |-> "scalar", v |-> <<"J", "E", "W", "E", "L">>]}
         [] key = "valueBand" ->
              {[kind |-> "list", items |-> <<S_HIGH, <<"M", "E", "D">>>>],
               [kind |-> "scalar", v |-> <<"L", "O", "W">>]}
         [] key = "bulky" ->
              {[kind |-> "list", items |-> <<FALSE>>], [kind |-> "scalar", v |-> TRUE]}
         [] key = "fragile" ->
              {[kind |-> "list", items |-> <<TRUE, FALSE>>], [kind |-> "scalar", v |-> FALSE]}
         [] key = "goals" ->
              {[kind |-> "list", items |-> <<S_max>>],
               [kind |-> "scalar", v |-> <<"b", "a", "l", "a", "n", "c", "e", "d">>]}
         [] key = "chosenPaths" ->
              {[kind |-> "list", items |-> <<S_A, <<"B">>>>],
               [kind |-> "scalar", v |-> <<"C">>]}
         [] key = "setMembership" ->
              {[kind |-> "list", items |-> <<<<"C", "O", "N", "F", "I", "R", "M", "E", "D">>>>],
               [kind |-> "scalar", v |-> <<"N", "O", "N", "E">>]}

MaxWhenKeys == 2

(* the when-predicates over the keys K *)
RECURSIVE WhensOver(_)
WhensOver(K) ==
  IF K = {} THEN {<<>>}
  ELSE LET k == CHOOSE x \in K : TRUE
       IN  { (k :> v) @@ w : v \in WhenValues(k), w \in WhensOver(K \ {k}) }

(* the when-predicates that declare up to MaxWhenKeys keys *)
Whens ==
  UNION { WhensOver(K) : K \in {X \in SUBSET WhenKeys : Cardinality(X) <= MaxWhenKeys} }

(* A request with every attribute given, one with every optional attribute *)
(* null, and one with other values                                         *)
MatchRequests ==
  { [chosenPath |-> S_A,
     scenario |-> [category |-> Some(<<"J", "e", "w", "e", "l", " ">>),
                   valueBand |-> Some(S_HIGH), bulky |-> Some(FALSE),
                   fragile |-> Some(TRUE),
                   setMembership |-> Some(<<"N", "O", "N", "E">>),
                   goal |-> Some(S_max)]],
    [chosenPath |-> S_A,
     scenario |-> [category |-> Nothing, valueBand |-> Nothing, bulky |-> Nothing,
                   fragile |-> Nothing, setMembership |-> Nothing, goal |-> Nothing]],
    [chosenPath |-> <<"C">>,
     scenario |-> [category |-> Some(<<"a", "r", "t">>),
                   valueBand |-> Some(<<"L", "O", "W">>), bulky |-> Some(TRUE),
                   fragile |-> Some(FALSE),
                   setMembership |-> Some(<<"P", "O", "S", "S", "I", "B", "L", "E">>),
                   goal |-> Some(<<"b", "a", "l", "a", "n", "c", "e", "d">>)]] }

(* Gate references: required and boost, one of each without a definition  *)
GateRefs ==
  { <<"required:", " ", "business_type">>, <<"required:", "insured">>,
    <<"required:", "licensed">>, G_business_type, G_insured, <<"licensed">> }

MaxGates == 3

GateLists == UNION { [1..n -> GateRefs] : n \in 0..MaxGates }

(* Evidence maps: those of the listings, and one with every keyword *)
Evidence ==
  { K1.sources, K2.sources, K3.sources, K4.sources,
    [website_snippet |-> <<"a", " ">> \o S_shop,
     place_details |-> <<"I", "n", "s", "u", "r", "e", "d">>,
     reviews_snippet |-> <<>>] }

(* Evidence texts around the keyword "shop": plain, negated, negated in    *)
(* one place and plain in another, and after a word that ends in no / not  *)
GateTexts ==
  { S_shop, <<"A", " ", "S", "h", "o", "p">>,
    <<"n", "o", "t", " ">> \o S_shop, <<"N", "o", " ">> \o S_shop,
    <<"n", "o", "t", " ">> \o S_shop \o <<" ", "a", " ">> \o S_shop,
    <<"p", "i", "a", "n", "o", " ">> \o S_shop,
    <<"k", "n", "o", "t", " ">> \o S_shop,
    <<"c", "a", "f", "e">>, <<>> }

KeywordGates ==
  { [type |-> "keyword_any", keywords |-> k, sources |-> srcs, sourceWeights |-> w] :
      k \in { <<S_shop>>, <<S_jewel, <<"S", "h", "o", "p", " ">>>> },
      srcs \in { <<"website_snippet">>, <<"place_details", "website_snippet">> },
      w \in { [website_snippet |-> 800], [place_details |-> 1000],
              [website_snippet |-> 0, place_details |-> 0] } }

(* Weight maps: none configured, some configured, a sum above 1, negative *)
RankWeights ==
  { <<>>, [trustScore |-> 300, distanceScore |-> 500],
    [trustScore |-> 2000, relevanceScore |-> 2000, distanceScore |-> 2000,
     reviewScore |-> 2000],
    [trustScore |-> -1000, relevanceScore |-> -500],
    [trustScore |-> -1000, relevanceScore |-> 1500] }

(* scores within [0, 1], in thousandths *)
UnitScores == {0, 333, 500, 1000}

(* distances and radii in whole miles, below zero included *)
MaxMiles == 8

(* request radii (none, 0, below, at and above the checkpoints) and the    *)
(* matrix's default and maximum radius                                     *)
RequestRadii == {Nothing} \cup {Some(r) : r \in {0, 10, 49, 50, 75, 100, 150}}

RadiusTunables ==
  { <<>>, [defaultRadiusMiles |-> 60], [maxRadiusMiles |-> 50],
    [defaultRadiusMiles |-> 10, maxRadiusMiles |-> 200],
    [defaultRadiusMiles |-> 120, maxRadiusMiles |-> 150],
    [defaultRadiusMiles |-> 30, maxRadiusMiles |-> 20] }

(* one call of one helper function, with arguments from the sets above *)
InitCall ==
  /\ matrix = [scenarios |-> <<>>]
  /\ EngineIdle
  /\ ProviderIdle
  /\ PickIdle
  /\ FactoryIdle
  /\ LoopIdle
  /\ result = Nothing
  /\ \/ call \in {Some([fn |-> "_scenario_matches", when |-> w, req |-> r]) :
                     w \in Whens, r \in MatchRequests}
     \/ call \in {Some([fn |-> "_eval_gate_keyword_any", gate_def |-> g,
                         sources |-> [website_snippet |-> t, place_details |-> d]]) :
                     g \in KeywordGates, t \in GateTexts,
                     d \in {None, S_shop, <<"n", "o", " ">> \o S_shop}}
     \/ call \in {Some([fn |-> "_evaluate_trust",
                         matrix |-> [trustGateDefinitions |-> GateDefs],
                         partner_payload_sources |-> e, trust_gate_ids |-> g]) :
                     e \in Evidence, g \in GateLists}
     \/ call \in {Some([fn |-> "_distance_score", distance_miles |-> d,
                         radius_miles |-> r]) :
                     d \in (-MaxMiles)..MaxMiles, r \in (-1)..MaxMiles}
     \/ call \in {Some([fn |-> "radii", radiusMiles |-> r, matrix |-> m]) :
                     r \in RequestRadii, m \in RadiusTunables}
     \/ call \in {Some([fn |-> "_rank_candidates", rank_weights |-> w,
                         trust_score |-> t, relevance |-> r, distance_score |-> d,
                         review_score |-> v]) :
                     w \in RankWeights, t \in UnitScores, r \in UnitScores,
                     d \in UnitScores, v \in UnitScores}

ScenarioMatches ==
  /\ call # Nothing /\ result = Nothing
  /\ call[1].fn = "_scenario_matches"
  /\ result' = Some(_scenario_matches(call[1].when, call[1].req))
  /\ UNCHANGED <<call, engineVars, retryVars, pickVars, factoryVars, loopVars>>

EvaluateTrust ==
  /\ call # Nothing /\ result = Nothing
  /\ call[1].fn = "_evaluate_trust"
  /\ result' = Some(_evaluate_trust(call[1].matrix, call[1].partner_payload_sources,
                                    call[1].trust_gate_ids))
  /\ UNCHANGED <<call, engineVars, retryVars, pickVars, factoryVars, loopVars>>

EvalGateKeywordAny ==
  /\ call # Nothing /\ result = Nothing
  /\ call[1].fn = "_eval_gate_keyword_any"
  /\ result' = Some(_eval_gate_keyword_any(call[1].gate_def, call[1].sources))
  /\ UNCHANGED <<call, engineVars, retryVars, pickVars, factoryVars, loopVars>>

RankCandidates ==
  /\ call # Nothing /\ result = Nothing
  /\ call[1].fn = "_rank_candidates"
  /\ result' = Some(_rank_candidates(call[1].rank_weights, call[1].trust_score,
                                     call[1].relevance, call[1].distance_score,
                                     call[1].review_score))
  /\ UNCHANGED <<call, engineVars, retryVars, pickVars, factoryVars, loopVars>>

DistanceScore ==
  /\ call # Nothing /\ result = Nothing
  /\ call[1].fn = "_distance_score"
  /\ result' = Some(_distance_score(call[1].distance_miles, call[1].radius_miles))
  /\ UNCHANGED <<call, engineVars, retryVars, pickVars, factoryVars, loopVars>>

(* the radii list the handler builds for a non-hub partner type *)
RadiiOf ==
  /\ call # Nothing /\ result = Nothing
  /\ call[1].fn = "radii"
  /\ result' = Some(Radii(BaseRadius(call[1].radiusMiles,
                                     Get(call[1].matrix, "defaultRadiusMiles", 25)),
                          Get(call[1].matrix, "maxRadiusMiles", 100)))
  /\ UNCHANGED <<call, engineVars, retryVars, pickVars, factoryVars, loopVars>>

NextCall ==
  \/ ScenarioMatches
  \/ EvalGateKeywordAny
  \/ EvaluateTrust
  \/ RankCandidates
  \/ DistanceScore
  \/ RadiiOf

SpecCall == InitCall /\ [][NextCall]_vars

(***************************************************************************)
(* Calls of get_partner_discovery_provider on their own                    *)
(***************************************************************************)

InitFactory ==
  /\ matrix = [scenarios |-> <<>>]
  /\ EngineIdle /\ ProviderIdle /\ PickIdle /\ CallIdle /\ LoopIdle
  /\ env \in Envs
  /\ lru = <<>>
  /\ made = 0
  /\ history = <<>>

GetProvider(stub_fn) ==
  /\ Len(history) < MaxCalls
  /\ Provided(stub_fn)
  /\ UNCHANGED <<env, engineVars, retryVars, pickVars, callVars, loopVars>>

NextFactory ==
  \/ \E e \in Envs : SetEnv(e)
  \/ \E stub_fn \in StubFns : GetProvider(stub_fn)

SpecFactory == InitFactory /\ [][NextFactory]_vars

(***************************************************************************)
(* Two overlapping requests on one cache key.  The handler is a coroutine  *)
(* without an await: the event loop runs it from its first statement to    *)
(* its return, provider.search and time.sleep included.                    *)
(***************************************************************************)

(* the two requests: the same search, typed differently *)
LoopRequests ==
  << Request(<<"B", "o">>, Some(S_jewel), Nothing, <<>>),
     Request(<<"b", "o", " ">>, Some(<<"J", "e", "w", "e", "l">>), Nothing, <<>>) >>

LoopKey(r) == _mk_cache_key(LoopRequests[r], "consignment", 25, S_shop)

NewRequest == [pc |-> "new", attempt |-> 0, candidates |-> Nothing, stored |-> Nothing,
               raised |-> FALSE]

InitLoop ==
  /\ matrix = [scenarios |-> <<>>]
  /\ EngineIdle /\ ProviderIdle /\ PickIdle /\ CallIdle /\ FactoryIdle
  /\ running = 0
  /\ reqs = [r \in 1..2 |-> NewRequest]
  /\ invoked = 0
  /\ pops = <<>>

LoopFrame == UNCHANGED <<matrix, nreq, resp, evals, log, trace, fills, prefills,
                         retryVars, pickVars, callVars, factoryVars>>

(* the client sends request r *)
Arrive(r) ==
  /\ reqs # <<>> /\ reqs[r].pc = "new"
  /\ reqs' = [reqs EXCEPT ![r].pc = "queued"]
  /\ UNCHANGED <<cache, now, running, invoked, pops>>
  /\ LoopFrame

(* what _cache_get removed, if it removed the entry *)
PopsAfter(r, key, cached) ==
  IF key \in DOMAIN cache /\ key \notin DOMAIN cached.cache
  THEN Append(pops, [by |-> r, age |-> now - cache[key].created])
  ELSE pops

(* the event loop starts the handler of r, which runs up to its lookup:    *)
(* on a hit it goes on to its return, on a miss it calls provider.search   *)
Looked(r, key, cached) ==
  /\ cache' = cached.cache
  /\ pops' = PopsAfter(r, key, cached)
  /\ IF cached.hit
     THEN /\ reqs' = [reqs EXCEPT ![r].pc = "done",
                                  ![r].candidates = Some(cached.payload.candidates)]
          /\ UNCHANGED <<running, invoked>>
     ELSE /\ reqs' = [reqs EXCEPT ![r].pc = "search", ![r].attempt = 1]
          /\ running' = r
          /\ invoked' = invoked + 1

Lookup(r) ==
  /\ reqs # <<>> /\ reqs[r].pc = "queued"
  /\ running = 0
  /\ Looked(r, LoopKey(r), _cache_get(cache, LoopKey(r), now))
  /\ UNCHANGED now
  /\ LoopFrame

(* one POST of provider.search returns: candidates, a transient failure    *)
(* that is retried after a sleep, or an exception that ends the handler    *)
Post(r, outcome) ==
  /\ reqs # <<>> /\ reqs[r].pc = "search"
  /\ running = r
  /\ IF outcome.ok
     THEN /\ reqs' = [reqs EXCEPT ![r].pc = "store",
                                  ![r].candidates = Some(outcome.candidates)]
          /\ UNCHANGED running
     ELSE IF MayRetry(reqs[r].attempt)
     THEN /\ reqs' = [reqs EXCEPT ![r].pc = "backoff"]
          /\ UNCHANGED running
     ELSE /\ reqs' = [reqs EXCEPT ![r].pc = "done", ![r].raised = TRUE]
          /\ running' = 0
  /\ UNCHANGED <<cache, now, invoked, pops>>
  /\ LoopFrame

(* time.sleep(0.4 * attempt) returns *)
Sleep(r) ==
  /\ reqs # <<>> /\ reqs[r].pc = "backoff"
  /\ running = r
  /\ reqs' = [reqs EXCEPT ![r].pc = "search", ![r].attempt = @ + 1]
  /\ UNCHANGED <<cache, now, running, invoked, pops>>
  /\ LoopFrame

(* _cache_set, and the handler runs on to its return *)
Store(r) ==
  /\ reqs # <<>> /\ reqs[r].pc = "store"
  /\ running = r
  /\ cache' = _cache_set(cache, LoopKey(r), [candidates |-> reqs[r].candidates[1]], now)
  /\ reqs' = [reqs EXCEPT ![r].pc = "done", ![r].stored = Some(now)]
  /\ running' = 0
  /\ UNCHANGED <<now, invoked, pops>>
  /\ LoopFrame

(* a step of the handler of request r *)
Step(r) ==
  \/ Lookup(r)
  \/ \E outcome \in {[ok |-> FALSE, candidates |-> <<>>]}
                    \cup {[ok |-> TRUE, candidates |-> c] : c \in Listings} :
       Post(r, outcome)
  \/ Sleep(r)
  \/ Store(r)

NextLoop ==
  \/ \E r \in 1..2 : Arrive(r)
  \/ \E r \in 1..2 : Step(r)
  \/ \E d \in {43200, 43201} : Advance(d)

SpecLoop == InitLoop /\ [][NextLoop]_vars

(* The service serving requests, or one helper function called on its own *)
SpecAll == (Init \/ InitCall) /\ [][Next \/ NextCall]_vars

(***************************************************************************)
(* Properties of the engine                                                *)
(***************************************************************************)

Score(r) == r.ranking.score

HasRequiredFail(gates) ==
  \E j \in 1..Len(gates) : gates[j].mode = "required" /\ gates[j].status = "fail"

EvalsOf(partner_type) ==
  Keep(evals, [i \in 1..Len(evals) |-> evals[i].partnerType = partner_type])

Ids(seq) == [i \in 1..Len(seq) |-> seq[i].partnerId]

(* C1: a candidate is dropped before scoring if and only if one of its     *)
(* required gates has status fail, on the geo path and on the hub path; a  *)
(* required gate the matrix does not define has status unknown and drops   *)
(* nothing; no result of the response carries a failed required gate.      *)
C1_RequiredGates ==
  /\ \A i \in 1..Len(evals) : evals[i].kept <=> ~HasRequiredFail(evals[i].gates)
  /\ \A i \in 1..Len(trace) :
       Ids(trace[i].found)
         = LET es == EvalsOf(trace[i].partnerType)
           IN  Ids(Keep(es, [k \in 1..Len(es) |-> ~HasRequiredFail(es[k].gates)]))
  /\ \A i \in 1..Len(evals) : \A j \in 1..Len(evals[i].gates) :
       LET g == evals[i].gates[j]
       IN  (g.mode = "required" /\ g.id \notin DOMAIN matrix.trustGateDefinitions)
             => g.status = "unknown"
  /\ \A i \in 1..Len(resp.results) : ~HasRequiredFail(resp.results[i].trust.gates)

(* a request dropped a hub entry or a listing on a failed required gate    *)
(* and returned a result whose undefined required gate is unknown          *)
C1_Witness ==
  /\ \E i \in 1..Len(evals) : ~evals[i].kept
  /\ \E i \in 1..Len(resp.results) : \E j \in 1..Len(resp.results[i].trust.gates) :
       LET g == resp.results[i].trust.gates[j]
       IN  g.mode = "required" /\ g.status = "unknown"

(* C2, read lookup by lookup against the provider's own history: a lookup  *)
(* made at most 24 hours after the provider last answered for its key      *)
(* takes that answer and does not invoke the provider; any other lookup    *)
(* invokes it once, and its answer is the entry from then on.              *)
RECURSIVE LookupsFollowFills(_, _)
LookupsFollowFills(f, lg) ==
  IF lg = <<>> THEN TRUE
  ELSE LET e == Head(lg)
           fresh == e.key \in DOMAIN f
                      /\ e.t - f[e.key].t <= _DISPOSITION_CACHE_TTL_SECONDS
       IN  /\ fresh => (e.hit /\ e.candidates = f[e.key].candidates)
           /\ ~fresh => ~e.hit
           /\ LookupsFollowFills(FillsAfter(f, <<e>>, e.t), Tail(lg))

C5_FailureIsolation ==
  (\E i \in 1..Len(trace) : trace[i].raised)
    => /\ resp.status = "ok"
       /\ Len(trace) = Len(resp.partnerTypes)

FoundGroup(tr, fp) == {i \in 1..Len(tr.found) : _fingerprint(tr.found[i]) = fp}

(* C6: within one non-hub partner type the accumulated candidates with one *)
(* fingerprint collapse to exactly one, which has the highest score of its *)
(* group, whatever their order.                                            *)
C6_DedupKeepsBest ==
  \A t \in 1..Len(trace) :
    LET tr == trace[t]
    IN  tr.partnerType # "luxury_hub_mailin" =>
          /\ \A i, j \in 1..Len(tr.deduped) :
               i # j => _fingerprint(tr.deduped[i]) # _fingerprint(tr.deduped[j])
          /\ \A i \in 1..Len(tr.found) :
               \E d \in 1..Len(tr.deduped) :
                 /\ _fingerprint(tr.deduped[d]) = _fingerprint(tr.found[i])
                 /\ Score(tr.deduped[d]) >= Score(tr.found[i])
          /\ \A d \in 1..Len(tr.deduped) :
               \E i \in 1..Len(tr.found) : tr.found[i] = tr.deduped[d]

(* the lower-scored of two listings of one business was found first *)
C6_Witness ==
  \E t \in 1..Len(trace) :
    LET tr == trace[t]
    IN  /\ tr.partnerType # "luxury_hub_mailin"
        /\ \E i, j \in 1..Len(tr.found) :
             /\ i < j
             /\ _fingerprint(tr.found[i]) = _fingerprint(tr.found[j])
             /\ Score(tr.found[i]) < Score(tr.found[j])

(* C7 as stated: no two results of a response share a fingerprint *)
C7_NoSharedFingerprint ==
  \A i, j \in 1..Len(resp.results) :
    i # j => _fingerprint(resp.results[i]) # _fingerprint(resp.results[j])

TraceOf(partner_type) ==
  CHOOSE t \in 1..Len(trace) : trace[t].partnerType = partner_type

(* C7, amended: no two results of the same partner type share a            *)
(* fingerprint, and a result has the highest score among the accumulated   *)
(* candidates of its partner type with its fingerprint.                    *)
C7_NoSharedFingerprintPerType ==
  /\ \A i, j \in 1..Len(resp.results) :
       (i # j /\ resp.results[i].partnerType = resp.results[j].partnerType)
         => _fingerprint(resp.results[i]) # _fingerprint(resp.results[j])
  /\ \A i \in 1..Len(resp.results) :
       LET r  == resp.results[i]
           tr == trace[TraceOf(r.partnerType)]
       IN  \A k \in FoundGroup(tr, _fingerprint(r)) : Score(r) >= Score(tr.found[k])

(* a response holds one business twice, under two partner types, and its   *)
(* partner type had accumulated that business twice                        *)
C7_Witness ==
  /\ \E i, j \in 1..Len(resp.results) :
       /\ i # j
       /\ _fingerprint(resp.results[i]) = _fingerprint(resp.results[j])
  /\ \E i \in 1..Len(resp.results) :
       LET r == resp.results[i]
       IN  Cardinality(FoundGroup(trace[TraceOf(r.partnerType)], _fingerprint(r))) > 1

MaxResultsPerType == Get(matrix, "maxResultsPerType", 8)
MaxResultsTotal == Get(matrix, "maxResultsTotal", 15)

CountOfType(results, partner_type) ==
  Cardinality({i \in 1..Len(results) : results[i].partnerType = partner_type})

(* C8: at most maxResultsPerType results per partner type and at most      *)
(* maxResultsTotal results in all (8 and 15 when the matrix omits them).   *)
C8_Caps ==
  /\ \A i \in 1..Len(resp.results) :
       CountOfType(resp.results, resp.results[i].partnerType) <= MaxResultsPerType
  /\ Len(resp.results) <= MaxResultsTotal

RECURSIVE Concat(_)
Concat(seqs) == IF seqs = <<>> THEN <<>> ELSE Head(seqs) \o Concat(Tail(seqs))

(* all_results of the last request: what the partner types added, in order *)
AllAdded == Concat([t \in 1..Len(trace) |-> trace[t].added])

(* both caps cut: a partner type had more deduplicated candidates than it  *)
(* added, and the types added more than the response holds                 *)
C8_Witness ==
  /\ resp.status = "ok"
  /\ \E t \in 1..Len(trace) : Len(trace[t].deduped) > Len(trace[t].added)
  /\ Len(AllAdded) > Len(resp.results)
  /\ Len(resp.results) = MaxResultsTotal

CountAbove(seq, m) == Cardinality({i \in 1..Len(seq) : Score(seq[i]) > m})

(* C9: the results are in non-increasing order of score across partner     *)
(* types, and when the global cap cuts, nothing cut scores higher than     *)
(* anything kept.                                                          *)
C9_GlobalOrder ==
  resp.status = "ok" =>
    /\ \A i, j \in 1..Len(resp.results) :
         i < j => Score(resp.results[i]) >= Score(resp.results[j])
    /\ \A i \in 1..Len(resp.results) :
         /\ \E k \in 1..Len(AllAdded) : AllAdded[k] = resp.results[i]
         /\ CountAbove(AllAdded, Score(resp.results[i]))
              = CountAbove(resp.results, Score(resp.results[i]))

(* the global cap cut a response whose partner types added their results   *)
(* out of score order                                                      *)
C9_Witness ==
  /\ resp.status = "ok"
  /\ Len(AllAdded) > Len(resp.results)
  /\ \E i, j \in 1..Len(AllAdded) : i < j /\ Score(AllAdded[i]) < Score(AllAdded[j])
  /\ \E i, j \in 1..Len(resp.results) :
       resp.results[i].partnerType # resp.results[j].partnerType

(***************************************************************************)
(* Properties of the provider                                              *)
(***************************************************************************)

(* HTTP 429, 408, 400, any 5xx, a timeout or a network error *)
Transient(outcome) ==
  \/ outcome.kind \in {"TimeoutException", "NetworkError"}
  \/ /\ outcome.kind = "response"
     /\ \/ outcome.status \in {429, 408, 400}
        \/ (500 <= outcome.status /\ outcome.status <= 599)

(* the error a failed attempt is observed as *)
ErrorOf(outcome) ==
  IF outcome.kind = "response" THEN HTTPStatusError(outcome.status) ELSE outcome

AllTransient == \A i \in 1..Len(script) : Transient(script[i])

(* C3: when every attempt fails transiently, _search_text sends exactly 3  *)
(* requests, waits 1x the base delay before the 2nd and 2x before the 3rd  *)
(* and not after it, and raises the error of the 3rd attempt; a 4th        *)
(* request is never sent.                                                  *)
C3_RetryExhaustion ==
  /\ Len(sent) <= 3
  /\ (script # <<>> /\ AllTransient) =>
       /\ retry.pc \in {"idle", "post", "raised"}
       /\ retry.pc = "post" =>
            /\ Len(sent) = retry.attempt - 1
            /\ Len(sent) < 3
            /\ retry.sleeps = [k \in 1..Len(sent) |-> k * BackoffBase]
       /\ retry.pc = "raised" =>
            /\ sent = script
            /\ Len(sent) = 3
            /\ retry.sleeps = <<BackoffBase, 2 * BackoffBase>>
            /\ retry.raised = Some(ErrorOf(script[3]))

(* three transient failures of three kinds, the third raised *)
C3_Witness ==
  /\ retry.pc = "raised"
  /\ AllTransient
  /\ script[1].status = 429
  /\ script[2] = TimeoutException
  /\ script[3].status = 400

FirstSuccessAt(k) ==
  /\ Len(script) >= k
  /\ script[k] = [kind |-> "response", status |-> 200]
  /\ \A j \in 1..(k - 1) : Transient(script[j])

(* the candidates search builds from a 200 answer: one per place of its    *)
(* first 12, in order, under the place's id                                *)
BuiltFrom(places, candidates) ==
  /\ Len(candidates) = Min2(Len(places), 12)
  /\ \A i \in 1..Len(candidates) :
       candidates[i].partnerId
         = <<"gplaces:", IF places[i].id = Nothing THEN "unknown" ELSE places[i].id[1]>>

(* C4: when the first successful answer comes on attempt k <= 3 after      *)
(* transient failures only, search sends k requests and no more, raises    *)
(* nothing, and returns the candidates built from that answer.             *)
C4_SuccessAfterRetries ==
  \A k \in 1..3 :
    FirstSuccessAt(k) =>
      /\ retry.pc # "raised"
      /\ retry.raised = Nothing
      /\ Len(sent) <= k
      /\ retry.pc \in {"enrich", "returned"} => Len(sent) = k
      /\ retry.pc = "returned" =>
           /\ returned # Nothing
           /\ BuiltFrom(listing, returned[1])

(* rate-limited twice, then a 200 with 13 places, 12 of them returned *)
C4_Witness ==
  /\ retry.pc = "returned"
  /\ script[1].status = 429
  /\ script[2].status = 429
  /\ script[3].status = 200
  /\ Len(listing) = 13
  /\ Len(returned[1]) = 12

(***************************************************************************)
(* Properties of scenario selection                                        *)
(***************************************************************************)

Priority(s) == Get(s, "priority", 0)

Matching(scenarios, req) ==
  {i \in 1..Len(scenarios) : _scenario_matches(Get(scenarios[i], "when", <<>>), req)}

(* C10: when some scenario matches the request, the scenario picked        *)
(* matches, no matching scenario has a higher priority, and no matching    *)
(* scenario of the same priority is declared before it.                    *)
C10_PickHighestPriority ==
  picked # Nothing =>
    LET scenarios == matrix.scenarios
        M == Matching(scenarios, pickreq[1])
    IN  M # {} =>
          \E i \in M :
            /\ scenarios[i] = picked[1]
            /\ \A j \in M :
                 /\ Priority(scenarios[i]) >= Priority(scenarios[j])
                 /\ Priority(scenarios[i]) = Priority(scenarios[j]) => i <= j

(* a matching scenario of lower priority is declared first, then two of    *)
(* the highest priority, and the first of these two is picked              *)
C10_Witness ==
  /\ picked # Nothing
  /\ LET scenarios == matrix.scenarios
         M == Matching(scenarios, pickreq[1])
     IN  \E i, j, k \in M :
           /\ i < j /\ j < k
           /\ Priority(scenarios[i]) < Priority(scenarios[j])
           /\ Priority(scenarios[j]) = Priority(scenarios[k])
           /\ picked[1] = scenarios[j]

(* the scenarios whose id is the matrix's defaultScenarioId *)
NamedDefault(scenarios, default_id) ==
  {i \in 1..Len(scenarios) : default_id # "" /\ Get(scenarios[i], "id", "") = default_id}

(* C11: a scenario is always picked.  When no scenario matches the         *)
(* request, it is the scenario named by defaultScenarioId; when that id    *)
(* is absent or names no scenario, it is the first scenario in descending  *)
(* priority order; when the matrix has no scenarios, it is a degenerate    *)
(* scenario without partner types, and the response of the search has no   *)
(* results.                                                                *)
C11_PickFallbacks ==
  picked # Nothing =>
    LET scenarios == Get(matrix, "scenarios", <<>>)
        M == Matching(scenarios, pickreq[1])
        D == NamedDefault(scenarios, Get(matrix, "defaultScenarioId", ""))
    IN  /\ scenarios # <<>> => \E i \in 1..Len(scenarios) : picked[1] = scenarios[i]
        /\ M = {} /\ D # {} => \E i \in D : picked[1] = scenarios[i]
        /\ M = {} /\ D = {} /\ scenarios # <<>> =>
              \E i \in 1..Len(scenarios) :
                /\ picked[1] = scenarios[i]
                /\ \A j \in 1..Len(scenarios) :
                     /\ Priority(scenarios[i]) >= Priority(scenarios[j])
                     /\ Priority(scenarios[i]) = Priority(scenarios[j]) => i <= j
        /\ scenarios = <<>> =>
              /\ picked[1].partnerTypes = <<>>
              /\ resp.status = "ok"
              /\ resp.scenarioId = picked[1].id
              /\ resp.results = <<>>

(* no scenario matches and the scenario named by defaultScenarioId is      *)
(* picked although another one has a higher priority                       *)
C11_Witness ==
  /\ picked # Nothing
  /\ resp.status = "ok"
  /\ LET scenarios == Get(matrix, "scenarios", <<>>)
     IN  /\ Matching(scenarios, pickreq[1]) = {}
         /\ picked[1].id = Get(matrix, "defaultScenarioId", "")
         /\ \E j \in 1..Len(scenarios) : Priority(scenarios[j]) > Priority(picked[1])

(* the matrix has no scenarios and the search has answered *)
C11_WitnessNoScenarios ==
  /\ picked # Nothing
  /\ Get(matrix, "scenarios", <<>>) = <<>>
  /\ resp.results = <<>>

(* no scenario matches, defaultScenarioId names none, the first by         *)
(* priority is picked and it is not the first declared                     *)
C11_WitnessByPriority ==
  /\ picked # Nothing
  /\ LET scenarios == Get(matrix, "scenarios", <<>>)
     IN  /\ Matching(scenarios, pickreq[1]) = {}
         /\ NamedDefault(scenarios, Get(matrix, "defaultScenarioId", "")) = {}
         /\ Len(scenarios) > 1
         /\ picked[1] # scenarios[1]

(* the request attribute a key of a when-predicate constrains *)
AttributeOf(req, key) ==
  CASE key = "categories" -> req.scenario.category
    [] key = "valueBand" -> req.scenario.valueBand
    [] key = "bulky" -> req.scenario.bulky
    [] key = "fragile" -> req.scenario.fragile
    [] key = "goals" -> req.scenario.goal
    [] key = "chosenPaths" -> Some(req.chosenPath)
    [] key = "setMembership" -> req.scenario.setMembership

Wildcard(when_val) == when_val.kind \in {"star", "null"}

(* a constraint is satisfied by a request value: membership in a list,     *)
(* equality with a scalar; categories are compared without case and blanks *)
Satisfied(when_val, req_val, tolerant) ==
  \/ Wildcard(when_val)
  \/ /\ req_val # Nothing
     /\ LET vs == IF when_val.kind = "list" THEN when_val.items ELSE <<when_val.v>>
        IN  \E i \in 1..Len(vs) :
              IF tolerant THEN _norm(vs[i]) = _norm(req_val[1]) ELSE vs[i] = req_val[1]

(* C12: a constraint whose value is the wildcard or null never decides the *)
(* outcome, whatever the request attribute, null included: the outcome is  *)
(* the outcome of the when-predicate without these keys, and a             *)
(* when-predicate with no other key (the empty one too) matches.           *)
C12_WildcardsSatisfied ==
  result # Nothing /\ call[1].fn = "_scenario_matches" =>
    LET when == call[1].when
        K == {k \in DOMAIN when : ~Wildcard(when[k])}
    IN  /\ result[1] = _scenario_matches([k \in K |-> when[k]], call[1].req)
        /\ K = {} => result[1] = TRUE

(* a when-predicate of a wildcard and a null, matched by a request whose   *)
(* two attributes are null                                                 *)
C12_Witness ==
  /\ call # Nothing /\ call[1].fn = "_scenario_matches"
  /\ result = Some(TRUE)
  /\ LET when == call[1].when
     IN  /\ \E k \in DOMAIN when : when[k].kind = "star"
         /\ \E k \in DOMAIN when : when[k].kind = "null"
         /\ \A k \in DOMAIN when : AttributeOf(call[1].req, k) = Nothing

(* C13: a scenario matches only if every constraint its when-predicate     *)
(* declares is satisfied by the request, for each request attribute:       *)
(* category, value band, bulky, fragile, set-membership, goal, chosen path *)
C13_AllDeclaredConstraints ==
  result # Nothing /\ call[1].fn = "_scenario_matches" /\ result[1] =>
    \A k \in DOMAIN call[1].when :
       Satisfied(call[1].when[k], AttributeOf(call[1].req, k), k = "categories")

(* the same for the keys _scenario_matches reads, where it also holds in   *)
(* the other direction                                                     *)
C13_ReadConstraints ==
  result # Nothing /\ call[1].fn = "_scenario_matches" =>
    (result[1] <=>
       \A k \in DOMAIN call[1].when \ {"setMembership"} :
          Satisfied(call[1].when[k], AttributeOf(call[1].req, k), k = "categories"))

(* the gates of a mode that passed, and the sum of their strengths *)
PassedOf(gates, mode) ==
  {i \in 1..Len(gates) : gates[i].mode = mode /\ gates[i].status = "pass"}

RECURSIVE StrengthSum(_, _)
StrengthSum(gates, I) ==
  IF I = {} THEN 0
  ELSE LET i == CHOOSE x \in I : TRUE
       IN  gates[i].strength + StrengthSum(gates, I \ {i})

(* base + lift in millionths, times the denominators t * nR * nB of the    *)
(* pass ratio and the two means                                            *)
BasePlusLift(gates, t, nR, nB) ==
  LET total == Cardinality({i \in 1..Len(gates) : gates[i].mode = "required"})
      R == PassedOf(gates, "required")
      B == PassedOf(gates, "boost")
      base == IF total = 0 THEN 600000 * t * nR * nB
              ELSE IF Cardinality(R) = total THEN 720000 * t * nR * nB
              ELSE 100000 * Cardinality(R) * nR * nB
  IN  base + 180 * StrengthSum(gates, R) * t * nB + 180 * StrengthSum(gates, B) * t * nR

(* score (thousandths) is x / d (millionths) clamped to [0, 1] and rounded *)
(* to 3 decimals                                                           *)
IsClampedRounded(score, x, d) ==
  LET c == Max2(0, Min2(1000000 * d, x))
      diff == 1000 * score * d - c
  IN  /\ 0 <= score /\ score <= 1000
      /\ 2 * diff <= 1000 * d /\ 2 * diff >= -(1000 * d)

(* C14: the trust score is clamp(base + lift, 0, 1) to 3 decimals, with    *)
(* base 0.60 without required gates, 0.72 when every required gate passed, *)
(* else 0.10 x passed / total, and lift 0.18 x the mean strength of the    *)
(* passed required gates plus 0.18 x that of the passed boost gates; it is *)
(* within [0, 1].                                                          *)
C14_TrustScore ==
  result # Nothing /\ call[1].fn = "_evaluate_trust" =>
    LET gates == result[1].gates
        t  == Max2(1, Cardinality({i \in 1..Len(gates) : gates[i].mode = "required"}))
        nR == Max2(1, Cardinality(PassedOf(gates, "required")))
        nB == Max2(1, Cardinality(PassedOf(gates, "boost")))
    IN  /\ Len(gates) = Len(call[1].trust_gate_ids)
        /\ IsClampedRounded(result[1].trustScore, BasePlusLift(gates, t, nR, nB),
                            t * nR * nB)

(* one of two required gates passed and a boost gate passed *)
C14_Witness ==
  /\ result # Nothing /\ call[1].fn = "_evaluate_trust"
  /\ LET gates == result[1].gates
     IN  /\ Cardinality(PassedOf(gates, "required")) = 1
         /\ Cardinality({i \in 1..Len(gates) : gates[i].mode = "required"}) = 2
         /\ PassedOf(gates, "boost") # {}
         /\ result[1].trustScore > 50

(* base + lift exceeds 1 and the score is 1 *)
C14_WitnessClamped ==
  /\ result # Nothing /\ call[1].fn = "_evaluate_trust"
  /\ result[1].trustScore = 1000
  /\ BasePlusLift(result[1].gates, 1, 1, 1) > 1000000

(* C15: with at least one required gate declared and no required gate      *)
(* passing, the trust score is exactly 0, whatever the boost gates and the *)
(* evidence.                                                               *)
C15_NoRequiredPassIsZero ==
  result # Nothing /\ call[1].fn = "_evaluate_trust" =>
    LET gates == result[1].gates
    IN  /\ \E i \in 1..Len(gates) : gates[i].mode = "required"
        /\ PassedOf(gates, "required") = {}
        => result[1].trustScore = 0

(* what holds instead: the score is the lift of the passed boost gates *)
C15_BoostLiftOnly ==
  result # Nothing /\ call[1].fn = "_evaluate_trust" =>
    LET gates == result[1].gates
        nB == Max2(1, Cardinality(PassedOf(gates, "boost")))
    IN  /\ \E i \in 1..Len(gates) : gates[i].mode = "required"
        /\ PassedOf(gates, "required") = {}
        => IsClampedRounded(result[1].trustScore,
                            180 * StrengthSum(gates, PassedOf(gates, "boost")), nB)

(* the keyword k occurs in the text t at position i *)
OccursAt(t, k, i) ==
  /\ i >= 1 /\ i + Len(k) - 1 <= Len(t)
  /\ \A j \in 1..Len(k) : t[i + j - 1] = k[j]

(* the token tok stands immediately before position i of the text t *)
TokenBefore(t, i, tok) ==
  LET b == i - 1 - Len(tok)
  IN  /\ b >= 1
      /\ t[i - 1] = " "
      /\ \A j \in 1..Len(tok) : t[b + j - 1] = tok[j]
      /\ b = 1 \/ t[b - 1] = " "

(* some occurrence of k in t has neither "not" nor "no" immediately before *)
HasFreeOccurrence(t, k) ==
  /\ k # <<>>
  /\ \E i \in 1..Len(t) :
       /\ OccursAt(t, k, i)
       /\ ~TokenBefore(t, i, <<"n", "o", "t">>)
       /\ ~TokenBefore(t, i, <<"n", "o">>)

(* C16: a keyword_any gate passes if and only if some configured keyword   *)
(* occurs, case-insensitively, in some configured evidence field at an     *)
(* occurrence not immediately preceded by the token "not" or "no"; a       *)
(* negated occurrence elsewhere in the text, or no / not as the tail of a  *)
(* longer word, does not stop such an occurrence from passing the gate.    *)
C16_KeywordAnyGate ==
  result # Nothing /\ call[1].fn = "_eval_gate_keyword_any" =>
    (result[1].passed <=>
       \E i \in 1..Len(call[1].gate_def.sources),
          j \in 1..Len(call[1].gate_def.keywords) :
         HasFreeOccurrence(_norm(Get(call[1].sources, call[1].gate_def.sources[i], None)),
                           _norm(call[1].gate_def.keywords[j])))

(* what holds instead: a keyword counts in a text only if the text holds   *)
(* neither "not <keyword>" nor "no <keyword>" anywhere, and the gate       *)
(* passes only if the field of such a keyword has a positive weight        *)
KeywordCounts(t, k) ==
  /\ k # <<>> /\ Contains(t, k)
  /\ ~Contains(t, <<"n", "o", "t", " ">> \o k)
  /\ ~Contains(t, <<"n", "o", " ">> \o k)

C16_WholeTextNegation ==
  result # Nothing /\ call[1].fn = "_eval_gate_keyword_any" =>
    (result[1].passed <=>
       \E i \in 1..Len(call[1].gate_def.sources),
          j \in 1..Len(call[1].gate_def.keywords) :
         /\ KeywordCounts(_norm(Get(call[1].sources, call[1].gate_def.sources[i], None)),
                          _norm(call[1].gate_def.keywords[j]))
         /\ Get(call[1].gate_def.sourceWeights, call[1].gate_def.sources[i], 500) > 0)

(* C17: for scores within [0, 1] and every weight map (the defaults for    *)
(* missing keys, weights that sum to more than 1, negative weights) the    *)
(* composite score _rank_candidates returns is within [0, 1]; in every     *)
(* response the ranking score and the trust score of every result are      *)
(* within [0, 1].                                                          *)
C17_ScoresWithinUnit ==
  /\ call # Nothing /\ result # Nothing /\ call[1].fn = "_rank_candidates" =>
       0 <= result[1] /\ result[1] <= 1000
  /\ \A i \in 1..Len(resp.results) :
       /\ 0 <= resp.results[i].ranking.score
       /\ resp.results[i].ranking.score <= 1000
       /\ 0 <= resp.results[i].trust.trustScore
       /\ resp.results[i].trust.trustScore <= 1000

(* the weighted sum is above 1 and the composite is 1.0 *)
C17_Witness ==
  /\ call # Nothing /\ result # Nothing /\ call[1].fn = "_rank_candidates"
  /\ call[1].rank_weights # <<>>
  /\ RankUnclamped(call[1].rank_weights, call[1].trust_score, call[1].relevance,
                   call[1].distance_score, call[1].review_score) > 1000
  /\ result[1] = 1000

(* the weighted sum is negative and the composite is 0.0 *)
C17_WitnessNegative ==
  /\ call # Nothing /\ result # Nothing /\ call[1].fn = "_rank_candidates"
  /\ RankUnclamped(call[1].rank_weights, call[1].trust_score, call[1].relevance,
                   call[1].distance_score, call[1].review_score) < 0
  /\ result[1] = 0

(* a response with a result ranked under configured weights *)
C17_WitnessResponse ==
  /\ resp.status = "ok"
  /\ Len(resp.results) >= 2
  /\ \E i \in 1..Len(matrix.scenarios), j \in 1..MaxPerType :
       /\ matrix.scenarios[i].id = resp.scenarioId
       /\ j <= Len(matrix.scenarios[i].partnerTypes)
       /\ Get(matrix.scenarios[i].partnerTypes[j], "rankWeights", <<>>) # <<>>

(* score (thousandths) is 1 - d / r: 1.0 at 0, 0.0 from the radius on,     *)
(* linear in between                                                       *)
LinearFalloff(score, d, r) ==
  IF r <= 0 THEN score = 500
  ELSE IF d >= r THEN score = 0
  ELSE /\ 2 * (score * r - 1000 * (r - d)) <= r
       /\ 2 * (score * r - 1000 * (r - d)) >= -r

(* C18: for every distance and every radius the distance score is within   *)
(* [0, 1]; it is 1.0 at distance 0, 0.0 at a distance greater than or      *)
(* equal to the radius, linear in between, and 0.5 when the radius is <= 0.*)
C18_DistanceScore ==
  call # Nothing /\ result # Nothing /\ call[1].fn = "_distance_score" =>
    /\ 0 <= result[1] /\ result[1] <= 1000
    /\ call[1].distance_miles >= 0 \/ call[1].radius_miles <= 0 =>
         LinearFalloff(result[1], call[1].distance_miles, call[1].radius_miles)

(* what holds instead: the falloff for distances from 0 on, and a score    *)
(* above 1.0 for a distance below 0 and a radius above 0                   *)
C18_FalloffUnclampedAbove ==
  call # Nothing /\ result # Nothing /\ call[1].fn = "_distance_score" =>
    /\ 0 <= result[1]
    /\ result[1] > 1000 <=> (call[1].distance_miles < 0 /\ call[1].radius_miles > 0)
    /\ call[1].distance_miles >= 0 \/ call[1].radius_miles <= 0 =>
         LinearFalloff(result[1], call[1].distance_miles, call[1].radius_miles)

(* the hub partner type of the scenario picked for the last request, and   *)
(* the curated entries built for that request                              *)
HubTypes ==
  IF picked = Nothing THEN <<>>
  ELSE LET pts == Get(picked[1], "partnerTypes", <<>>)
       IN  Keep(pts, [j \in 1..Len(pts) |-> pts[j].type = "luxury_hub_mailin"])

HubCandidates == _curated_luxury_hub_mailin_candidates(_normalize_brand_hints(pickreq[1]))

(* the result r is the curated entry c with null distance, ranked with a   *)
(* distance score of 0.5                                                   *)
HubShown(r, c, pt, query_str) ==
  /\ r.partnerId = c.partnerId /\ r.partnerType = "luxury_hub_mailin"
  /\ r.distanceMiles = Nothing
  /\ r.ranking.score = _rank_candidates(Get(pt, "rankWeights", <<>>), r.trust.trustScore,
                                        _relevance_score(c, query_str), 500,
                                        _review_score(r.rating))

HubInResponse(c) ==
  \E i \in 1..Len(resp.results) :
    HubShown(resp.results[i], c, HubTypes[1],
             WithHints(HubQuery, _normalize_brand_hints(pickreq[1])))

HubFailsRequired(c) ==
  \E i \in 1..Len(evals) :
    /\ evals[i].partnerId = c.partnerId /\ evals[i].partnerType = "luxury_hub_mailin"
    /\ HasRequiredFail(evals[i].gates)

(* c passed the gates behind maxResultsPerType other entries *)
HubCutPerType(c) ==
  \E t \in 1..Len(trace) :
    /\ trace[t].partnerType = "luxury_hub_mailin"
    /\ \E k \in 1..Len(trace[t].found) :
         trace[t].found[k].partnerId = c.partnerId /\ k > MaxResultsPerType

(* c was added to all_results, which holds more than maxResultsTotal, and  *)
(* every result of the response scores at least as much as c               *)
HubCutTotal(c) ==
  \E k \in 1..Len(AllAdded) :
    /\ AllAdded[k].partnerId = c.partnerId
    /\ AllAdded[k].partnerType = "luxury_hub_mailin"
    /\ Len(AllAdded) > MaxResultsTotal
    /\ Len(resp.results) = MaxResultsTotal
    /\ \A i \in 1..Len(resp.results) : Score(resp.results[i]) >= Score(AllAdded[k])

C19_WitnessCutTotal ==
  /\ HubTypes # <<>> /\ resp.status = "ok"
  /\ \E k \in 1..Len(HubCandidates) :
       /\ HubCutTotal(HubCandidates[k]) /\ ~HubCutPerType(HubCandidates[k])
       /\ ~HubInResponse(HubCandidates[k])

(* a curated entry is left out on a failed required gate *)
C19_WitnessGate ==
  /\ HubTypes # <<>> /\ resp.status = "ok"
  /\ \E k \in 1..Len(HubCandidates) : HubFailsRequired(HubCandidates[k])
  /\ \E k \in 1..Len(HubCandidates) : HubInResponse(HubCandidates[k])

(* the first call that returned a provider *)
FirstReturned(i) ==
  /\ history[i].out.ok
  /\ \A k \in 1..(i - 1) : ~history[k].out.ok

(* the selected provider name is unknown, or google without an API key, or *)
(* stub without a stub function                                            *)
ConfigurationError(c) ==
  LET name == IF c.env.provider = Nothing THEN S_stub ELSE _norm(c.env.provider[1])
  IN  \/ name \notin {S_stub, S_google}
      \/ name = S_google /\ (c.env.api_key = Nothing \/ _norm(c.env.api_key[1]) = <<>>)
      \/ name = S_stub /\ c.stub_fn = Nothing

(* call j ran the body on the environment of its time: it raised on a      *)
(* configuration error, and else returned a provider no earlier call gave  *)
Evaluated(j) ==
  /\ history[j].out.ok <=> ~ConfigurationError(history[j])
  /\ history[j].out.ok => \A i \in 1..(j - 1) : history[i].out # history[j].out

StillCached(i, j) ==
  /\ i < j
  /\ history[i].out.ok
  /\ history[i].stub_fn = history[j].stub_fn
  /\ \A k \in (i + 1)..(j - 1) :
       history[k].stub_fn = history[i].stub_fn \/ ~history[k].out.ok

C20_WitnessAfterError ==
  \E j \in 2..Len(history) :
    /\ ~history[j - 1].out.ok /\ history[j].out.ok
    /\ history[j - 1].stub_fn = history[j].stub_fn
    /\ history[j - 1].env # history[j].env

(* a call with another argument replaced the entry, and the first argument *)
(* got a new instance                                                      *)
C20_WitnessEvicted ==
  /\ Len(history) = 3
  /\ history[1].out.ok /\ history[2].out.ok /\ history[3].out.ok
  /\ history[1].stub_fn = history[3].stub_fn
  /\ history[1].out # history[3].out

(* the entry e is the pair request r wrote: the time of its _cache_set and *)
(* the candidates its provider.search returned                             *)
WrittenBy(e, r) ==
  /\ reqs[r].stored # Nothing
  /\ e = [created |-> reqs[r].stored[1],
          payload |-> [candidates |-> reqs[r].candidates[1]]]

(* C21: for two overlapping requests on one cache key, under every         *)
(* interleaving of their steps the provider is invoked at most twice, the  *)
(* entry under the key is a complete (timestamp, candidates) pair written  *)
(* by one of the requests, and no entry younger than the TTL is removed by *)
(* an expiry check.                                                        *)
C21_BenignRace ==
  reqs # <<>> =>
    /\ invoked <= 2
    /\ LoopKey(1) = LoopKey(2)
    /\ \A k \in DOMAIN cache : \E r \in 1..2 : WrittenBy(cache[k], r)
    /\ \A i \in 1..Len(pops) : pops[i].age >= _DISPOSITION_CACHE_TTL_SECONDS

(* both requests were sent, the first one's search raised after its        *)
(* retries, and the second one called the provider again and stored        *)
C21_Witness ==
  /\ reqs # <<>>
  /\ invoked = 2
  /\ \E r \in 1..2 : reqs[r].raised /\ reqs[r].attempt = max_attempts
  /\ \E r \in 1..2 : reqs[r].pc = "done" /\ LoopKey(r) \in DOMAIN cache
                         /\ WrittenBy(cache[LoopKey(r)], r)

(* a request was served from the entry the other request wrote *)
C21_WitnessHit ==
  /\ reqs # <<>>
  /\ invoked = 1
  /\ \E r, o \in 1..2 :
       /\ reqs[r].pc = "done" /\ reqs[r].stored = Nothing /\ reqs[r].candidates # Nothing
       /\ reqs[o].stored # Nothing /\ reqs[r].candidates = reqs[o].candidates

(* an expiry check removed an entry and the provider was called again *)
C21_WitnessExpired ==
  /\ reqs # <<>>
  /\ pops # <<>>
  /\ invoked = 2

(* C22: while a request waits on the provider call or on a retry backoff,  *)
(* a second request that has arrived can start and complete: the call and  *)
(* its backoff block only the request that issued them.                    *)
C22_BlocksOnlyItsRequest ==
  reqs # <<>> =>
    \A r, o \in 1..2 :
      (reqs[r].pc \in {"search", "backoff"} /\ reqs[o].pc = "queued") => ENABLED Step(o)

(* what holds instead: from the start of a handler to its return no step   *)
(* of the other request is possible                                        *)
C22_HandlerHoldsTheLoop ==
  reqs # <<>> =>
    \A r, o \in 1..2 :
      (reqs[r].pc \in {"search", "backoff", "store"} /\ r # o)
        => /\ running = r
           /\ reqs[o].pc \in {"new", "queued", "done"}
           /\ ~ENABLED Step(o)

(* the radius of the request, or the matrix default when it gives none *)
RequestRadius ==
  IF call[1].radiusMiles \in {Nothing, Some(0)}
  THEN Get(call[1].matrix, "defaultRadiusMiles", 25)
  ELSE call[1].radiusMiles[1]

(* radii starts with first, is strictly increasing through the            *)
(* checkpoints 50 and 100, and stays within max_radius                     *)
Escalates(radii, first, max_radius) ==
  /\ radii # <<>> /\ radii[1] = first
  /\ \A i \in 2..Len(radii) : radii[i] \in {50, 100} /\ radii[i - 1] < radii[i]
  /\ \A i \in 1..Len(radii) : radii[i] <= max_radius

(* C23: for every request radius (or the matrix default) and every matrix  *)
(* maximum the radii queried start with the request radius, are strictly   *)
(* increasing (then the checkpoints 50 and 100 that exceed it) and are all *)
(* <= the matrix maximum.                                                  *)
C23_RadiiEscalate ==
  call # Nothing /\ result # Nothing /\ call[1].fn = "radii" =>
    Escalates(result[1], RequestRadius, Get(call[1].matrix, "maxRadiusMiles", 100))

(* what holds instead: the radii are within the maximum; they escalate     *)
(* from the request radius when it is at most 100 and at most the maximum; *)
(* a request radius above 100 is followed by 100, and one above the        *)
(* maximum is not queried                                                  *)
C23_RadiiAsBuilt ==
  call # Nothing /\ result # Nothing /\ call[1].fn = "radii" =>
    /\ \A i \in 1..Len(result[1]) :
         result[1][i] <= Get(call[1].matrix, "maxRadiusMiles", 100)
    /\ (RequestRadius <= 100 /\ RequestRadius <= Get(call[1].matrix, "maxRadiusMiles", 100))
         => Escalates(result[1], RequestRadius, Get(call[1].matrix, "maxRadiusMiles", 100))
    /\ (100 < RequestRadius /\ RequestRadius <= Get(call[1].matrix, "maxRadiusMiles", 100))
         => result[1] = <<RequestRadius, 100>>
    /\ RequestRadius > Get(call[1].matrix, "maxRadiusMiles", 100)
         => \A i \in 1..Len(result[1]) : result[1][i] # RequestRadius

(* the lookups of the last request for a partner type, in order *)
LookupsOf(partner_type) ==
  Keep(log, [i \in 1..Len(log) |-> log[i].key[2] = partner_type])

(* The lookups and the evaluations of one partner type, read side by side: *)
(* each lookup's candidates are evaluated in order, and the candidate that *)
(* brings the count of survivors to min_results is the last one evaluated, *)
(* in the last lookup made.                                                *)
RECURSIVE StopsAtMinimum(_, _, _, _)
RECURSIVE StopsWithin(_, _, _, _, _)
StopsWithin(cands, rest, es, count, min_results) ==
  IF cands = <<>> THEN StopsAtMinimum(rest, es, count, min_results)
  ELSE IF es = <<>> \/ Head(es).partnerId # Head(cands).partnerId THEN FALSE
  ELSE IF Head(es).kept /\ count + 1 >= min_results
  THEN rest = <<>> /\ Tail(es) = <<>>
  ELSE StopsWithin(Tail(cands), rest, Tail(es),
                   IF Head(es).kept THEN count + 1 ELSE count, min_results)

StopsAtMinimum(lookups, es, count, min_results) ==
  IF lookups = <<>> THEN es = <<>>
  ELSE IF count >= min_results THEN FALSE
  ELSE StopsWithin(Head(lookups).candidates, Tail(lookups), es, count, min_results)

(* the radii of the last request *)
RequestRadiiCount ==
  Len(Radii(BaseRadius(pickreq[1].location.radiusMiles,
                       Get(matrix, "defaultRadiusMiles", 25)),
            Get(matrix, "maxRadiusMiles", 100)))

ProviderCalls(lookups) == Cardinality({i \in 1..Len(lookups) : ~lookups[i].hit})

MaxQueries(partner_types) ==
  IF partner_types = <<>> THEN 0
  ELSE CHOOSE n \in 0..8 :
         /\ \A j \in 1..Len(partner_types) : Len(Get(partner_types[j], "queries", <<>>)) <= n
         /\ \E j \in 1..Len(partner_types) : Len(Get(partner_types[j], "queries", <<>>)) = n

(* C24: for a non-hub partner type, once the count of gate-surviving       *)
(* candidates reaches minResults no further cache lookup or provider       *)
(* search is made for it; a request invokes provider.search at most        *)
(* (radii) x (query templates) x (partner types of the scenario) times.    *)
C24_StopsAtMinResults ==
  picked # Nothing =>
    /\ \A t \in 1..Len(trace) :
         trace[t].partnerType # "luxury_hub_mailin" =>
           /\ StopsAtMinimum(LookupsOf(trace[t].partnerType), EvalsOf(trace[t].partnerType),
                             0, Get(matrix, "minResults", 6))
           /\ \A j \in 1..Len(picked[1].partnerTypes) :
                picked[1].partnerTypes[j].type = trace[t].partnerType =>
                  Len(LookupsOf(trace[t].partnerType))
                    <= RequestRadiiCount * Len(Get(picked[1].partnerTypes[j], "queries", <<>>))
    /\ ProviderCalls(log)
         <= RequestRadiiCount * MaxQueries(picked[1].partnerTypes) * Len(picked[1].partnerTypes)

(* a partner type met the minimum in its first lookup and left the other   *)
(* query template and the larger radii untried                             *)
C24_Witness ==
  /\ picked # Nothing /\ resp.status = "ok"
  /\ \E t \in 1..Len(trace) :
       /\ trace[t].partnerType = "consignment"
       /\ Len(trace[t].found) = Get(matrix, "minResults", 6)
       /\ Len(LookupsOf("consignment")) = 1
       /\ RequestRadiiCount >= 2

(* a partner type never met the minimum and made every lookup *)
C24_WitnessExhausted ==
  /\ picked # Nothing /\ resp.status = "ok"
  /\ \E t \in 1..Len(trace), j \in 1..Len(picked[1].partnerTypes) :
       /\ picked[1].partnerTypes[j].type = trace[t].partnerType
       /\ Len(trace[t].found) < Get(matrix, "minResults", 6)
       /\ Len(LookupsOf(trace[t].partnerType)) >= 2
       /\ Len(LookupsOf(trace[t].partnerType))
            = RequestRadiiCount * Len(Get(picked[1].partnerTypes[j], "queries", <<>>))

ProviderFailed == \E i \in 1..Len(log) : ~log[i].ok

MalformedFound ==
  \E t \in 1..Len(trace) : \E i \in 1..Len(trace[t].found) :
    /\ trace[t].found[i].rating = Nothing
    /\ ~DispositionPartnerResultDTO(trace[t].found[i])

(* C25: a candidate with an unparseable distance or without a rating never *)
(* makes the search raise: unless the provider itself failed, the request  *)
(* completes with a response.                                              *)
C25_MalformedNeverRaises ==
  (resp # NoResponse /\ MalformedFound /\ ~ProviderFailed) => resp.status = "ok"

(* What the handler does: the distance it cannot parse is replaced for the *)
(* scoring only, and the request fails exactly when a record with such a   *)
(* distance is among the results the response is built from; an absent     *)
(* rating or an absent distance alone never fail it.                       *)
C25_RaisesWhenReturned ==
  (resp # NoResponse /\ ~ProviderFailed) =>
    (resp.status = "error"
       <=> \E i \in 1..Len(AllResultsSorted(AllAdded)) :
             /\ i <= Get(matrix, "maxResultsTotal", 15)
             /\ ~DispositionPartnerResultDTO(AllResultsSorted(AllAdded)[i]))

(* a survivor with an unparseable distance was scored and then cut by a    *)
(* cap, and the request answered                                           *)
C25_WitnessCut ==
  resp.status = "ok" /\ MalformedFound /\ ~ProviderFailed

C25_WitnessRaised ==
  resp.status = "error" /\ MalformedFound /\ ~ProviderFailed

(* the per-type cap cut the list of partner type t of the last request *)
CapCuts(t) == Len(trace[t].added) < Len(trace[t].deduped)

(* no candidate that was cut scores higher than one that was kept *)
KeepsHighest(t) ==
  \A i \in 1..Len(trace[t].added) :
    \A j \in (Len(trace[t].added) + 1)..Len(trace[t].deduped) :
      trace[t].deduped[j].ranking.score <= trace[t].added[i].ranking.score

(* C26: for every partner type, hub and non-hub alike, the results kept    *)
(* after the per-type cap are the highest-scored deduplicated survivors:   *)
(* when the cap cuts, no cut candidate scores higher than a kept one.      *)
C26_CapKeepsHighest ==
  \A t \in 1..Len(trace) : CapCuts(t) => KeepsHighest(t)

(* The same of the partner types that are searched; the hub entries are    *)
(* cut in the order the curated list declares them.                        *)
C26_CapKeepsHighestSearched ==
  \A t \in 1..Len(trace) :
    CapCuts(t) =>
      IF trace[t].partnerType = "luxury_hub_mailin"
      THEN trace[t].added = Take(trace[t].found, Len(trace[t].added))
      ELSE KeepsHighest(t)

(* the cap cut a searched partner type whose survivors differ in score *)
C26_Witness ==
  \E t \in 1..Len(trace) :
    /\ trace[t].partnerType # "luxury_hub_mailin"
    /\ CapCuts(t)
    /\ trace[t].deduped[Len(trace[t].deduped)].ranking.score
         < trace[t].added[1].ranking.score

(* the cap cut the hub entries and kept a lower-scored one *)
C26_WitnessHub ==
  \E t \in 1..Len(trace) :
    /\ trace[t].partnerType = "luxury_hub_mailin"
    /\ CapCuts(t)
    /\ ~KeepsHighest(t)

(* the scenario picked for the last request has the hub type only *)
HubOnlyPicked ==
  /\ picked # Nothing
  /\ Get(picked[1], "partnerTypes", <<>>) # <<>>
  /\ \A j \in 1..Len(picked[1].partnerTypes) :
       picked[1].partnerTypes[j].type = "luxury_hub_mailin"

(* the handler's call of the factory: the last one made *)
LastCall == history[Len(history)]

(* the response does not depend on the location or the radius asked for,   *)
(* nor on what the places index would answer                               *)
IgnoresLocation ==
  \A p \in Requests, w \in HubWorlds :
    resp = disposition_partners_search(matrix, [pickreq[1] EXCEPT !.location = p.location],
                                       w, <<>>, 0).response

CuratedOnly ==
  /\ resp.results # <<>>
  /\ \A i \in 1..Len(resp.results) :
       /\ resp.results[i].partnerType = "luxury_hub_mailin"
       /\ resp.results[i].trust.claimLevel = "curated"

C27_WitnessRefused ==
  /\ HubOnlyPicked /\ resp.status = "error"
  /\ LastCall.env.provider = Some(<<"G", "o", "o", "g", "l", "e", " ">>)

(* a hub-only request answered although the key is gone: the provider was  *)
(* obtained by an earlier request                                          *)
C27_WitnessKept ==
  HubOnlyPicked /\ resp.status = "ok" /\ ConfigurationError(LastCall)

(* a response with a client error that is none of 400, 408, 429 *)
ClientError(outcome) ==
  /\ outcome.kind = "response"
  /\ 400 < outcome.status /\ outcome.status <= 499
  /\ outcome.status \notin {408, 429}

(* C28: _search_text retries only the transient classes: a client error    *)
(* outside 400, 408, 429 (a 404, say) ends the search on that attempt with *)
(* an error, and no further text-search request is sent.                   *)
C28_ClientErrorEndsSearch ==
  \A k \in 1..Len(sent) :
    ClientError(sent[k]) =>
      /\ Len(sent) = k
      /\ retry.pc = "raised"
      /\ retry.raised = Some(HTTPStatusError(sent[k].status))

(* What the loop does with it: raise_for_status raises HTTPStatusError     *)
(* inside the try, the except clause takes it like a timeout, and the      *)
(* search sleeps and posts again unless the attempt was the third.         *)
C28_ClientErrorRetried ==
  \A k \in 1..Len(sent) :
    ClientError(sent[k]) =>
      IF k < max_attempts
      THEN /\ retry.pc # "raised" \/ Len(sent) > k
           /\ Len(retry.sleeps) >= k /\ retry.sleeps[k] = Backoff(k)
      ELSE /\ retry.pc = "raised"
           /\ retry.raised = Some(HTTPStatusError(sent[k].status))

(* a 404 on the first attempt, two more requests sent, the third answered *)
C28_WitnessRetried ==
  /\ Len(sent) = 3
  /\ ClientError(sent[1]) /\ ClientError(sent[2])
  /\ sent[3] = [kind |-> "response", status |-> 200]
  /\ retry.pc = "returned"

(* the keys for which provider.search raised, and the keys written, in the *)
(* lookups lg of one request                                               *)
FailedKeys(lg) == {lg[i].key : i \in {j \in 1..Len(lg) : ~lg[j].ok}}
WrittenKeys(lg) == {lg[i].key : i \in {j \in 1..Len(lg) : ~lg[j].hit /\ lg[j].ok}}

(* the next request looks the failed key up again and has to search *)
SearchedAgain ==
  \A i \in 1..Len(log') :
    log'[i].key \in FailedKeys(log) => ~log'[i].hit

(* C29: when provider.search raises for a cache key, no entry is written   *)
(* for that key and every entry already in the cache is left unchanged;    *)
(* the next request with the same key invokes the provider again.          *)
C29_FailureLeavesCache ==
  [][nreq' = nreq + 1 =>
       /\ FailedKeys(log') # {} =>
            /\ \A k \in FailedKeys(log') : k \notin DOMAIN cache'
            /\ \A k \in DOMAIN cache \ WrittenKeys(log') :
                 k \in DOMAIN cache' /\ cache'[k] = cache[k]
       /\ SearchedAgain]_vars

(* The same of every entry under another key: the lookup that precedes the *)
(* search has removed the expired entry under the key itself.              *)
C29_FailureLeavesOtherKeys ==
  [][nreq' = nreq + 1 =>
       /\ FailedKeys(log') # {} =>
            /\ \A k \in FailedKeys(log') : k \notin DOMAIN cache'
            /\ \A k \in DOMAIN cache \ (WrittenKeys(log') \cup FailedKeys(log')) :
                 k \in DOMAIN cache' /\ cache'[k] = cache[k]
            /\ \A k \in FailedKeys(log') \cap DOMAIN cache :
                 now - cache[k].created > _DISPOSITION_CACHE_TTL_SECONDS
       /\ SearchedAgain]_vars

(* a search raised while the cache held entries of an earlier request *)
C29_Witness ==
  /\ resp.status = "error"
  /\ FailedKeys(log) # {}
  /\ cache # <<>>
  /\ \E k \in DOMAIN cache : cache[k].created < now

(* a search raised for a key an earlier request had filled: the entry had  *)
(* expired and is gone                                                     *)
C29_WitnessExpired ==
  /\ resp.status = "error"
  /\ \E k \in FailedKeys(log) : k \in DOMAIN prefills /\ k \notin DOMAIN cache

HasDuplicates(found) ==
  \E i, j \in 1..Len(found) : i < j /\ _fingerprint(found[i]) = _fingerprint(found[j])

(* C30: for a non-hub partner type and minResults >= 1 the accumulated     *)
(* list of gate survivors never holds more than minResults entries (it     *)
(* only grows, so its final length bounds every earlier one); the type     *)
(* contributes at most min(minResults, maxResultsPerType) results, and     *)
(* fewer than minResults when the accumulated entries contain duplicates.  *)
C30_FoundWithinMinResults ==
  \A t \in 1..Len(trace) :
    (trace[t].partnerType # "luxury_hub_mailin" /\ Get(matrix, "minResults", 6) >= 1) =>
      /\ Len(trace[t].found) <= Get(matrix, "minResults", 6)
      /\ Len(trace[t].added) <= Min2(Get(matrix, "minResults", 6),
                                     Get(matrix, "maxResultsPerType", 8))
      /\ HasDuplicates(trace[t].found) =>
           Len(trace[t].added) < Get(matrix, "minResults", 6)

(* the minimum was met by a list with a duplicate pair while the listing   *)
(* held one more survivor, and the per-type cap did not cut                *)
C30_Witness ==
  \E t \in 1..Len(trace) :
    /\ trace[t].partnerType # "luxury_hub_mailin"
    /\ Len(trace[t].found) = Get(matrix, "minResults", 6)
    /\ HasDuplicates(trace[t].found)
    /\ Len(trace[t].added) = Len(trace[t].deduped)
    /\ Len(trace[t].added) >= 1

====
